---- MODULE Spec2Model ----
(***************************************************************************)
(* Model of heretto_mcp/server.py: the response-enrichment helpers         *)
(* (add_urls_to_response, extract_smart_snippet, extract_quick_answer,     *)
(* enhance_search_results, get_related_content,                            *)
(* suggest_alternative_queries) and the tool handlers.                     *)
(*                                                                         *)
(* Python objects live in a heap (a sequence of cells addressed by their   *)
(* index), so that copying and in-place mutation are distinguishable.      *)
(* Python strings are TLA+ strings.                                        *)
(***************************************************************************)
EXTENDS Integers, Sequences, FiniteSets, TLC

VARIABLES
    pc,               \* which helper the process runs, and whether it returned
    PORTAL_BASE_URL,  \* module-level configuration (server.py line 29)
    input,            \* the JSON tree handed to the first call (a nested value)
    heap,             \* the object heap
    heap0,            \* the heap as it was when the latest call started
    arg,              \* the reference passed to the latest call
    result,           \* the reference returned by the latest call
    stderr,           \* the diagnostics written by the latest call
    calls,            \* number of add_urls_to_response calls made so far
    content,          \* extract_smart_snippet: the document body
    query,            \* extract_smart_snippet: the query
    max_length,       \* extract_smart_snippet: the length limit
    outcome,          \* extract_smart_snippet: what the call produced
    answer,           \* extract_quick_answer: what the call produced
    results,          \* the search helpers: the list of results
    current_path,     \* get_related_content: the path of the current document
    enhanced,         \* enhance_search_results: what the call produced
    related,          \* get_related_content: what the call produced
    suggestions,      \* suggest_alternative_queries: what the call produced
    DEFAULT_ORG_ID,         \* module-level configuration (server.py line 27)
    DEFAULT_DEPLOYMENT_ID,  \* module-level configuration (server.py line 28)
    name,             \* handle_call_tool: the name of the tool
    arguments,        \* handle_call_tool: the arguments of the call
    api,              \* handle_call_tool: what the API client does for the call
    response,         \* handle_call_tool: what the call produced
    tools             \* handle_list_tools: what the call produced

annotateVars == <<PORTAL_BASE_URL, input, heap, heap0, arg, result, stderr, calls>>
snippetVars == <<content, query, max_length, outcome>>
searchVars == <<results, current_path, enhanced, related, suggestions>>
toolVars == <<DEFAULT_ORG_ID, DEFAULT_DEPLOYMENT_ID, name, arguments, api, response, tools>>
vars == <<pc, annotateVars, snippetVars, answer, searchVars, toolVars>>

--------------------------------------------------------------------------
(* Bounds of the model *)

MaxListLen == 1   \* sequences in the input trees hold 1..MaxListLen elements
MaxCalls == 2     \* add_urls_to_response is applied up to MaxCalls times in a row
MaxContentLen == 4  \* length of the enumerated document bodies
MaxQueryLen == 2    \* length of the enumerated queries
MaxQueryParts == 1    \* phrases per query handed to extract_quick_answer
MaxContentParts == 1  \* sentences per body handed to extract_quick_answer
ShortMaxLength == 3 \* a max_length small enough for snippets to be cut

--------------------------------------------------------------------------
(* Strings *)

StartsWith(s, p) == Len(s) >= Len(p) /\ SubSeq(s, 1, Len(p)) = p

Char(s, i) == SubSeq(s, i, i)

\* s[:n] and s[n:] for n >= 0
Prefix(s, n) == SubSeq(s, 1, IF n < Len(s) THEN n ELSE Len(s))
Suffix(s, n) == SubSeq(s, n + 1, Len(s))

\* str.lower() on one character (ASCII letters)
LowerChar(c) ==
    CASE c = "A" -> "a" [] c = "B" -> "b" [] c = "C" -> "c" [] c = "D" -> "d"
      [] c = "E" -> "e" [] c = "F" -> "f" [] c = "G" -> "g" [] c = "H" -> "h"
      [] c = "I" -> "i" [] c = "J" -> "j" [] c = "K" -> "k" [] c = "L" -> "l"
      [] c = "M" -> "m" [] c = "N" -> "n" [] c = "O" -> "o" [] c = "P" -> "p"
      [] c = "Q" -> "q" [] c = "R" -> "r" [] c = "S" -> "s" [] c = "T" -> "t"
      [] c = "U" -> "u" [] c = "V" -> "v" [] c = "W" -> "w" [] c = "X" -> "x"
      [] c = "Y" -> "y" [] c = "Z" -> "z" [] OTHER -> c

IsDigit(c) == c \in {"0", "1", "2", "3", "4", "5", "6", "7", "8", "9"}
IsOctal(c) == c \in {"0", "1", "2", "3", "4", "5", "6", "7"}
IsAsciiLetter(c) == LowerChar(c) \in
    {"a", "b", "c", "d", "e", "f", "g", "h", "i", "j", "k", "l", "m", "n", "o",
     "p", "q", "r", "s", "t", "u", "v", "w", "x", "y", "z"}

RECURSIVE Lower(_)
\* str.lower()
Lower(s) == IF s = "" THEN "" ELSE LowerChar(Char(s, 1)) \o Lower(Suffix(s, 1))

\* whitespace, for str.split() and the pattern \s
IsSpace(c) == c \in {" ", "\t", "\n", "\r", "\f"}

\* "t in s"
Contains(s, t) == \E i \in 0..(Len(s) - Len(t)) : SubSeq(s, i + 1, i + Len(t)) = t

RECURSIVE SplitFrom(_, _, _, _)
\* str.split(): the maximal runs of non-whitespace, in order
SplitFrom(s, i, cur, out) ==
    IF i > Len(s) THEN (IF cur = "" THEN out ELSE Append(out, cur))
    ELSE IF IsSpace(Char(s, i))
    THEN SplitFrom(s, i + 1, "", IF cur = "" THEN out ELSE Append(out, cur))
    ELSE SplitFrom(s, i + 1, cur \o Char(s, i), out)
Split(s) == SplitFrom(s, 1, "", <<>>)

RECURSIVE Join(_, _)
\* sep.join(parts)
Join(sep, parts) ==
    IF parts = <<>> THEN ""
    ELSE IF Len(parts) = 1 THEN parts[1]
    ELSE parts[1] \o sep \o Join(sep, Tail(parts))

\* the index of the last occurrence of character c in s, 0 when there is none
LastIndexOf(s, c) ==
    LET hits == {i \in 1..Len(s) : Char(s, i) = c}
    IN IF hits = {} THEN 0 ELSE CHOOSE i \in hits : \A j \in hits : j <= i

\* s.rsplit(c, 1)[0]
RSplit1Head(s, c) == IF LastIndexOf(s, c) = 0 THEN s ELSE SubSeq(s, 1, LastIndexOf(s, c) - 1)

--------------------------------------------------------------------------
(* JSON-like values.  Every node is a record of the same shape:           *)
(*   tag  : "str", "num", "dict" or "list"                                 *)
(*   str  : the text of a "str" node                                       *)
(*   keys : the keys of a "dict" node, in insertion order                  *)
(*   kids : the values of a "dict" node (parallel to keys) or the elements *)
(*          of a "list" node                                               *)

Str(s) == [tag |-> "str", str |-> s, keys |-> <<>>, kids |-> <<>>]
Num == [tag |-> "num", str |-> "", keys |-> <<>>, kids |-> <<>>]
Dict(ks, vs) == [tag |-> "dict", str |-> "", keys |-> ks, kids |-> vs]
List(vs) == [tag |-> "list", str |-> "", keys |-> <<>>, kids |-> vs]

Range(s) == {s[i] : i \in DOMAIN s}

IndexOf(ks, k) == IF k \in Range(ks) THEN CHOOSE i \in DOMAIN ks : ks[i] = k ELSE 0

--------------------------------------------------------------------------
(* The heap.  A cell has the shape of a node, its kids being addresses.   *)

Cell(tag, s, ks, refs) == [tag |-> tag, str |-> s, keys |-> ks, kids |-> refs]

RECURSIVE Load(_, _), LoadAll(_, _, _)
\* Load(h, v): the heap h extended with the objects of value v, and v's address.
Load(h, v) ==
    LET k == LoadAll(h, v.kids, <<>>)
        h1 == Append(k.heap, Cell(v.tag, v.str, v.keys, k.refs))
    IN [heap |-> h1, ref |-> Len(h1)]
LoadAll(h, vs, refs) ==
    IF vs = <<>> THEN [heap |-> h, refs |-> refs]
    ELSE LET one == Load(h, Head(vs))
         IN LoadAll(one.heap, Tail(vs), Append(refs, one.ref))

RECURSIVE Value(_, _)
\* Value(h, a): the nested value the object at address a stands for.
Value(h, a) ==
    [tag |-> h[a].tag, str |-> h[a].str, keys |-> h[a].keys,
     kids |-> [i \in DOMAIN h[a].kids |-> Value(h, h[a].kids[i])]]

\* "key in data"
HasKey(h, d, k) == k \in Range(h[d].keys)
\* data[key]
GetItem(h, d, k) == h[d].kids[IndexOf(h[d].keys, k)]
\* data[key] = ref : an existing key keeps its position, a new key goes last
SetItem(h, d, k, ref) ==
    IF HasKey(h, d, k)
    THEN [h EXCEPT ![d].kids[IndexOf(h[d].keys, k)] = ref]
    ELSE [h EXCEPT ![d].keys = Append(@, k), ![d].kids = Append(@, ref)]

\* a new object
Alloc(h, cell) == [heap |-> Append(h, cell), ref |-> Len(h) + 1]

--------------------------------------------------------------------------
(* add_urls_to_response (server.py lines 33-83)                            *)
(*                                                                         *)
(* The interpreter state threaded through the evaluation is                *)
(*   st = [heap |-> the object heap, log |-> the lines written to stderr], *)
(* each line recorded with the depth of the call that wrote it.            *)

\* (variant: the injected key is itself taken for a path-like field)
path_fields_with_portal_url ==
    <<"portal_url", "path", "href", "url", "link", "uri", "pathname">>
path_fields == <<"path", "href", "url", "link", "uri", "pathname">>
result_fields == <<"results", "items", "data", "entries", "documents">>
\* (variant: prose fields are not skipped)
skip_fields_no_prose == <<"portal_url">>
skip_fields == <<"portal_url", "content", "body", "html">>

\* print(..., file=sys.stderr)
Print_stderr(st, depth, line) ==
    [st EXCEPT !.log = Append(@, [depth |-> depth, line |-> line])]

\* (variant: the guard of line 35 never fires)
UrlGenerationDisabled_Never == FALSE
\* "if not PORTAL_BASE_URL"
UrlGenerationDisabled == PORTAL_BASE_URL = ""

\* (variant: no copy is made, the caller's mapping is updated in place)
ShallowCopy_InPlace(h, data) == [heap |-> h, ref |-> data]
\* "data = dict(data)": a new mapping object with the same keys and values
ShallowCopy(h, data) == Alloc(h, h[data])

\* isinstance(data[field], str) for a key that is present
IsStrField(h, d, field) == HasKey(h, d, field) /\ h[GetItem(h, d, field)].tag = "str"
\* isinstance(value, list) / isinstance(value, (dict, list))
IsList(h, a) == h[a].tag = "list"
IsContainer(h, a) == h[a].tag \in {"dict", "list"}

\* data["portal_url"] = f"..." followed by the print of lines 56 and 60
StorePortalUrl(st, d, field, url, depth) ==
    LET s == Alloc(st.heap, Cell("str", url, <<>>, <<>>))
        st1 == [st EXCEPT !.heap = SetItem(s.heap, d, "portal_url", s.ref)]
    IN Print_stderr(st1, depth, "Added URL from " \o field \o ": " \o url)

\* the body of "if field in data and isinstance(data[field], str)", lines 53-60
DerivePortalUrl(st, d, field, depth) ==
    LET v == st.heap[GetItem(st.heap, d, field)].str
    IN IF StartsWith(v, "/")
       THEN StorePortalUrl(st, d, field, PORTAL_BASE_URL \o v, depth)
       ELSE IF v # "" /\ ~StartsWith(v, "http")
       THEN StorePortalUrl(st, d, field, PORTAL_BASE_URL \o "/" \o v, depth)
       ELSE st

RECURSIVE PathFieldLoop_NoBreak(_, _, _, _)
\* (variant: the loop of lines 51-61 without its break)
PathFieldLoop_NoBreak(st, d, i, depth) ==
    IF i > Len(path_fields) THEN st
    ELSE IF IsStrField(st.heap, d, path_fields[i])
    THEN PathFieldLoop_NoBreak(DerivePortalUrl(st, d, path_fields[i], depth), d, i + 1, depth)
    ELSE PathFieldLoop_NoBreak(st, d, i + 1, depth)

RECURSIVE PathFieldLoop(_, _, _, _)
\* "for field in path_fields: ... break", from the i-th field on
PathFieldLoop(st, d, i, depth) ==
    IF i > Len(path_fields) THEN st
    ELSE IF IsStrField(st.heap, d, path_fields[i])
    THEN DerivePortalUrl(st, d, path_fields[i], depth)   \* then break
    ELSE PathFieldLoop(st, d, i + 1, depth)

RECURSIVE add_urls_to_response(_, _, _), MapItems(_, _, _, _),
          ResultFieldLoop(_, _, _, _), GenericLoop(_, _, _, _)

\* [add_urls_to_response(item, depth) for item in items]: the new list object
MapItems(st, items, out, depth) ==
    IF items = <<>>
    THEN LET l == Alloc(st.heap, Cell("list", "", <<>>, out))
         IN [heap |-> l.heap, log |-> st.log, ref |-> l.ref]
    ELSE LET r == add_urls_to_response(st, Head(items), depth)
         IN MapItems([heap |-> r.heap, log |-> r.log], Tail(items),
                     Append(out, r.ref), depth)

\* data[field] = [add_urls_to_response(item, depth + 1) for item in data[field]]
MapField(st, d, field, depth) ==
    LET r == MapItems(st, st.heap[GetItem(st.heap, d, field)].kids, <<>>, depth + 1)
    IN [heap |-> SetItem(r.heap, d, field, r.ref), log |-> r.log]

\* "for field in result_fields", from the i-th field on (lines 64-67)
ResultFieldLoop(st, d, i, depth) ==
    IF i > Len(result_fields) THEN st
    ELSE LET field == result_fields[i]
         IN IF HasKey(st.heap, d, field) /\ IsList(st.heap, GetItem(st.heap, d, field))
            THEN ResultFieldLoop(MapField(st, d, field, depth), d, i + 1, depth)
            ELSE ResultFieldLoop(st, d, i + 1, depth)

\* lines 70-71
ChildrenStep(st, d, depth) ==
    IF HasKey(st.heap, d, "children") /\ IsList(st.heap, GetItem(st.heap, d, "children"))
    THEN MapField(st, d, "children", depth)
    ELSE st

\* "for key, value in data.items()", from the i-th item on (lines 74-77)
GenericLoop(st, d, i, depth) ==
    IF i > Len(st.heap[d].keys) THEN st
    ELSE LET key == st.heap[d].keys[i]
             value == st.heap[d].kids[i]
         IN IF key \notin Range(skip_fields) /\ IsContainer(st.heap, value)
            THEN LET r == add_urls_to_response(st, value, depth + 1)
                 IN GenericLoop([heap |-> SetItem(r.heap, d, key, r.ref), log |-> r.log],
                                d, i + 1, depth)
            ELSE GenericLoop(st, d, i + 1, depth)

\* the "isinstance(data, dict)" branch, lines 44-77, then "return data"
AnnotateDict(st, data, depth) ==
    LET c == ShallowCopy(st.heap, data)
        st1 == PathFieldLoop([st EXCEPT !.heap = c.heap], c.ref, 1, depth)
        st2 == ResultFieldLoop(st1, c.ref, 1, depth)
        st3 == ChildrenStep(st2, c.ref, depth)
        st4 == GenericLoop(st3, c.ref, 1, depth)
    IN [heap |-> st4.heap, log |-> st4.log, ref |-> c.ref]

add_urls_to_response(st, data, depth) ==
    IF UrlGenerationDisabled
    THEN LET st1 == IF depth = 0
                    THEN Print_stderr(st, depth,
                             "Warning: PORTAL_BASE_URL not set, skipping URL generation")
                    ELSE st
         IN [heap |-> st1.heap, log |-> st1.log, ref |-> data]
    ELSE LET st1 == IF depth = 0
                    THEN Print_stderr(st, depth,
                             "Adding URLs with base: " \o PORTAL_BASE_URL)
                    ELSE st
         IN CASE st1.heap[data].tag = "dict" -> AnnotateDict(st1, data, depth)
              [] st1.heap[data].tag = "list" ->
                     MapItems(st1, st1.heap[data].kids, <<>>, depth + 1)
              [] OTHER -> [heap |-> st1.heap, log |-> st1.log, ref |-> data]

--------------------------------------------------------------------------
(* Regular expressions, as far as extract_quick_answer uses them.          *)
(*                                                                         *)
(* A pattern is a sequence of items:                                       *)
(*   Lit(s)            the text s                                          *)
(*   Rep(c, min, max)  a greedy repetition of the character class c        *)
(*                     (max = -1: unbounded)                               *)
(*   Alt(opts)         one of the texts in opts, tried in order            *)
(*   Open(g), Close(g) the parentheses of capture group g                  *)
(*   Ref(g)            the backreference \g                                *)
(*   WordB             \b                                                  *)
(*   NotAhead(opts)    (?!a|b|...)                                         *)

Lit(s) == [t |-> "lit", s |-> s]
Rep(c, min, max) == [t |-> "rep", c |-> c, min |-> min, max |-> max]
Alt(opts) == [t |-> "alt", opts |-> opts]
Open(g) == [t |-> "open", g |-> g]
Close(g) == [t |-> "close", g |-> g]
Ref(g) == [t |-> "ref", g |-> g]
WordB == [t |-> "wordb"]
NotAhead(opts) == [t |-> "notahead", opts |-> opts]

IsWordChar(c) == IsAsciiLetter(c) \/ IsDigit(c) \/ c = "_"

\* character classes are named by their pattern text; any other name is
\* the one character it consists of
InClass(c, ch, ic) ==
    CASE c = "\\w" -> IsWordChar(ch)
      [] c = "\\s" -> IsSpace(ch)
      [] c = "." -> ch # "\n"
      [] c = "[^.]" -> ch # "."
      [] c = "[^,]" -> ch # ","
      [] c = "[^:]" -> ch # ":"
      [] c = "[^.\\n]" -> ch \notin {".", "\n"}
      [] OTHER -> IF ic THEN LowerChar(ch) = LowerChar(c) ELSE ch = c

\* the text t stands at position i of s (ic: ignoring letter case)
LitAt(s, i, t, ic) ==
    /\ i + Len(t) - 1 <= Len(s)
    /\ IF ic THEN Lower(SubSeq(s, i, i + Len(t) - 1)) = Lower(t)
       ELSE SubSeq(s, i, i + Len(t) - 1) = t

RECURSIVE RunLen(_, _, _, _, _)
\* how many characters of class c stand at position i of s, at most max
RunLen(s, i, c, ic, max) ==
    IF max # 0 /\ i <= Len(s) /\ InClass(c, Char(s, i), ic)
    THEN 1 + RunLen(s, i + 1, c, ic, IF max > 0 THEN max - 1 ELSE max)
    ELSE 0

IsWordBoundary(s, i) ==
    (i > 1 /\ IsWordChar(Char(s, i - 1))) # (i <= Len(s) /\ IsWordChar(Char(s, i)))

NumGroups(pat) == Cardinality({k \in DOMAIN pat : pat[k].t = "open"})

RECURSIVE CompileFrom(_, _, _)
\* re.compile: "" when the pattern is accepted, else the error.  A
\* backreference must name a group whose parentheses were closed before it.
CompileFrom(pat, k, closed) ==
    IF k > Len(pat) THEN ""
    ELSE IF pat[k].t = "ref" /\ pat[k].g \notin closed THEN "re.error"
    ELSE CompileFrom(pat, k + 1,
                     IF pat[k].t = "close" THEN closed \cup {pat[k].g} ELSE closed)
Compile(pat) == CompileFrom(pat, 1, {})

RECURSIVE MatchFrom(_, _, _, _, _, _), TryRep(_, _, _, _, _, _, _), TryAlt(_, _, _, _, _, _, _)
\* The first way (in the order a backtracking matcher tries them) in which
\* items k.. of pat match s from position i on: <<>> when there is none,
\* else <<[end |-> position after the match, caps |-> the groups]>>.
MatchFrom(pat, k, s, i, caps, ic) ==
    IF k > Len(pat) THEN <<[end |-> i, caps |-> caps]>>
    ELSE LET it == pat[k]
         IN CASE it.t = "lit" ->
                   IF LitAt(s, i, it.s, ic)
                   THEN MatchFrom(pat, k + 1, s, i + Len(it.s), caps, ic) ELSE <<>>
              [] it.t = "rep" ->
                   TryRep(pat, k, s, i, caps, ic, RunLen(s, i, it.c, ic, it.max))
              [] it.t = "alt" -> TryAlt(pat, k, s, i, caps, ic, 1)
              [] it.t = "open" ->
                   MatchFrom(pat, k + 1, s, i, [caps EXCEPT ![it.g] = <<i, i>>], ic)
              [] it.t = "close" ->
                   MatchFrom(pat, k + 1, s, i, [caps EXCEPT ![it.g][2] = i], ic)
              [] it.t = "ref" ->
                   LET txt == SubSeq(s, caps[it.g][1], caps[it.g][2] - 1)
                   IN IF LitAt(s, i, txt, ic)
                      THEN MatchFrom(pat, k + 1, s, i + Len(txt), caps, ic) ELSE <<>>
              [] it.t = "wordb" ->
                   IF IsWordBoundary(s, i)
                   THEN MatchFrom(pat, k + 1, s, i, caps, ic) ELSE <<>>
              [] it.t = "notahead" ->
                   IF \E o \in DOMAIN it.opts : LitAt(s, i, it.opts[o], ic)
                   THEN <<>> ELSE MatchFrom(pat, k + 1, s, i, caps, ic)
\* the repetition takes n characters, then n - 1, ... down to its minimum
TryRep(pat, k, s, i, caps, ic, n) ==
    IF n < pat[k].min THEN <<>>
    ELSE LET r == MatchFrom(pat, k + 1, s, i + n, caps, ic)
         IN IF r # <<>> THEN r ELSE TryRep(pat, k, s, i, caps, ic, n - 1)
TryAlt(pat, k, s, i, caps, ic, o) ==
    IF o > Len(pat[k].opts) THEN <<>>
    ELSE LET r == IF LitAt(s, i, pat[k].opts[o], ic)
                  THEN MatchFrom(pat, k + 1, s, i + Len(pat[k].opts[o]), caps, ic)
                  ELSE <<>>
         IN IF r # <<>> THEN r ELSE TryAlt(pat, k, s, i, caps, ic, o + 1)

RECURSIVE SearchFrom(_, _, _, _)
\* re.search from position i: <<>> or <<[start, end, groups]>>, groups being
\* the texts of the capture groups
SearchFrom(pat, s, i, ic) ==
    IF i > Len(s) + 1 THEN <<>>
    ELSE LET r == MatchFrom(pat, 1, s, i, [g \in 1..NumGroups(pat) |-> <<0, 0>>], ic)
         IN IF r = <<>> THEN SearchFrom(pat, s, i + 1, ic)
            ELSE <<[start |-> i, end |-> r[1].end,
                    groups |-> [g \in 1..NumGroups(pat) |->
                                   SubSeq(s, r[1].caps[g][1], r[1].caps[g][2] - 1)]]>>
Search(pat, s, ic) == SearchFrom(pat, s, 1, ic)

RECURSIVE FindAllFrom(_, _, _, _, _)
\* re.findall: the matches from left to right, without overlap
FindAllFrom(pat, s, i, ic, out) ==
    LET m == SearchFrom(pat, s, i, ic)
    IN IF m = <<>> THEN out
       ELSE FindAllFrom(pat, s, IF m[1].end > m[1].start THEN m[1].end ELSE m[1].end + 1,
                        ic, Append(out, m[1]))
FindAll(pat, s, ic) == FindAllFrom(pat, s, 1, ic, <<>>)

RECURSIVE LStrip(_), RStrip(_)
LStrip(s) == IF s # "" /\ IsSpace(Char(s, 1)) THEN LStrip(Suffix(s, 1)) ELSE s
RStrip(s) == IF s # "" /\ IsSpace(Char(s, Len(s))) THEN RStrip(Prefix(s, Len(s) - 1)) ELSE s
\* str.strip()
Strip(s) == LStrip(RStrip(s))

--------------------------------------------------------------------------
(* extract_quick_answer (server.py lines 239-278)                          *)

Unbounded == -1
CategoryWords == <<"limit", "maximum", "minimum", "rate", "cost", "price">>

\* the keys of the dictionary "patterns" (lines 249-255), in its order
question_patterns ==
    << \* what\s+is\s+(\w+)
       <<Lit("what"), Rep("\\s", 1, Unbounded), Lit("is"), Rep("\\s", 1, Unbounded),
         Open(1), Rep("\\w", 1, Unbounded), Close(1)>>,
       \* how\s+to\s+(.+)
       <<Lit("how"), Rep("\\s", 1, Unbounded), Lit("to"), Rep("\\s", 1, Unbounded),
         Open(1), Rep(".", 1, Unbounded), Close(1)>>,
       \* what'?s?\s+the\s+(\w+)
       <<Lit("what"), Rep("'", 0, 1), Rep("s", 0, 1), Rep("\\s", 1, Unbounded),
         Lit("the"), Rep("\\s", 1, Unbounded), Open(1), Rep("\\w", 1, Unbounded), Close(1)>>,
       \* (limit|maximum|minimum|rate|cost|price)
       <<Open(1), Alt(CategoryWords), Close(1)>> >>

\* the values of the dictionary "patterns", each compiled with (?i)
answer_patterns ==
    << \* (\w+)\s+is\s+([^.]+)\.
       <<Open(1), Rep("\\w", 1, Unbounded), Close(1), Rep("\\s", 1, Unbounded), Lit("is"),
         Rep("\\s", 1, Unbounded), Open(2), Rep("[^.]", 1, Unbounded), Close(2), Lit(".")>>,
       \* to\s+\1[^,]*,\s*([^.]+)\.
       <<Lit("to"), Rep("\\s", 1, Unbounded), Ref(1), Rep("[^,]", 0, Unbounded),
         Lit(","), Rep("\\s", 0, Unbounded), Open(1), Rep("[^.]", 1, Unbounded), Close(1),
         Lit(".")>>,
       \* the\s+\1\s+is\s+([^.]+)\.
       <<Lit("the"), Rep("\\s", 1, Unbounded), Ref(1), Rep("\\s", 1, Unbounded),
         Lit("is"), Rep("\\s", 1, Unbounded), Open(1), Rep("[^.]", 1, Unbounded), Close(1),
         Lit(".")>>,
       \* (limit|maximum|minimum|rate|cost|price)[^:]*:\s*([^.\n]+)
       <<Open(1), Alt(CategoryWords), Close(1), Rep("[^:]", 0, Unbounded), Lit(":"),
         Rep("\\s", 0, Unbounded), Open(2), Rep("[^.\\n]", 1, Unbounded), Close(2)>> >>

\* \b(?!what|is|the|a|an)\w{3,}\b
key_term_pattern ==
    <<WordB, NotAhead(<<"what", "is", "the", "a", "an">>), Rep("\\w", 3, Unbounded), WordB>>

\* rf"(?i){key_term}[^:]*:\s*([^.\n]+)"
definition_pattern(key_term) ==
    <<Lit(key_term), Rep("[^:]", 0, Unbounded), Lit(":"), Rep("\\s", 0, Unbounded),
      Open(1), Rep("[^.\\n]", 1, Unbounded), Close(1)>>

\* what the function produces: an exception, None, or a string
Raised(exception) == [raised |-> exception, found |-> FALSE, text |-> ""]
None == [raised |-> "", found |-> FALSE, text |-> ""]
Answer(text) == [raised |-> "", found |-> TRUE, text |-> text]
NoAnswer == Raised("")

\* lines 266-278
DefinitionFallback(c, query_lower) ==
    IF Contains(query_lower, "what") \/ Contains(query_lower, "define")
    THEN LET terms == FindAll(key_term_pattern, query_lower, FALSE)
         IN IF terms = <<>> THEN None
            ELSE LET key_term == SubSeq(query_lower, terms[1].start, terms[1].end - 1)
                     match == Search(definition_pattern(key_term), c, TRUE)
                 IN IF match # <<>> THEN Answer(Strip(match[1].groups[1])) ELSE None
    ELSE None

RECURSIVE PatternLoop_FirstShapeOnly(_, _, _)
\* (variant: the loop stops at the first question shape that matches the
\* query, answer or not)
PatternLoop_FirstShapeOnly(c, query_lower, k) ==
    IF k > Len(question_patterns) THEN DefinitionFallback(c, query_lower)
    ELSE IF Search(question_patterns[k], query_lower, FALSE) # <<>>
    THEN IF Compile(answer_patterns[k]) # ""
         THEN Raised(Compile(answer_patterns[k]))
         ELSE LET matches == FindAll(answer_patterns[k], c, TRUE)
              IN IF matches # <<>>
                 THEN Answer(Strip(matches[1].groups[Len(matches[1].groups)]))
                 ELSE None
    ELSE PatternLoop_FirstShapeOnly(c, query_lower, k + 1)

RECURSIVE PatternLoop(_, _, _)
\* "for question_pattern, answer_pattern in patterns.items()", from the k-th
\* pair on (lines 258-264), then the rest of the function
PatternLoop(c, query_lower, k) ==
    IF k > Len(question_patterns) THEN DefinitionFallback(c, query_lower)
    ELSE IF Search(question_patterns[k], query_lower, FALSE) # <<>>
    THEN IF Compile(answer_patterns[k]) # ""
         THEN Raised(Compile(answer_patterns[k]))
         ELSE LET matches == FindAll(answer_patterns[k], c, TRUE)
              IN IF matches # <<>>
                 \* matches[0] for one group, matches[0][-1] for several
                 THEN Answer(Strip(matches[1].groups[Len(matches[1].groups)]))
                 ELSE PatternLoop(c, query_lower, k + 1)
    ELSE PatternLoop(c, query_lower, k + 1)

extract_quick_answer(c, q) ==
    IF c = "" THEN None ELSE PatternLoop(c, Lower(q), 1)

--------------------------------------------------------------------------
(* The trees handed to add_urls_to_response *)

PathStrings == {"", "/a", "b", "http://h"}
Leaves == {Str(s) : s \in PathStrings} \cup {Num}

\* the key orders of the innermost mappings
ItemKeySeqs ==
    { <<>>, <<"path">>, <<"href">>, <<"path", "href">>, <<"href", "path">>,
      <<"uri", "href">>, <<"portal_url", "path">>, <<"path", "portal_url">>,
      <<"pathname", "url">> }

SeqsOver(S, n) == [1..n -> S]

Items == UNION { {Dict(ks, vs) : vs \in SeqsOver(Leaves, Len(ks))} : ks \in ItemKeySeqs }

Copies(x, n) == [i \in 1..n |-> x]

\* a tree one level deeper around x
Wrap(x) ==
    {List(Copies(x, n)) : n \in 1..MaxListLen}
    \cup {Dict(<<"results">>, <<List(Copies(x, n))>>) : n \in 1..MaxListLen}
    \cup {Dict(<<"children", "path">>, <<List(Copies(x, n)), Str("b")>>) : n \in 1..MaxListLen}
    \cup {Dict(<<"path", "meta">>, <<Str("/a"), x>>),
          Dict(<<"content">>, <<x>>)}

Level1 == UNION {Wrap(x) : x \in Items}
Level2 == UNION {Wrap(x) : x \in Level1}
Trees == Leaves \cup Items \cup Level1 \cup Level2

\* PORTAL_BASE_URL = os.getenv(...).rstrip("/"): no trailing slash
BaseUrls == {"", "p.io"}

--------------------------------------------------------------------------
(* extract_smart_snippet (server.py lines 116-180)                         *)

\* re.split(r'(?<=[.!?])\s+', content): the text is cut at every run of
\* whitespace that directly follows '.', '!' or '?'
RECURSIVE RunEnd(_, _)
RunEnd(s, i) == IF i < Len(s) /\ IsSpace(Char(s, i + 1)) THEN RunEnd(s, i + 1) ELSE i

RECURSIVE SentenceSplitFrom(_, _, _, _)
SentenceSplitFrom(s, i, start, out) ==
    IF i > Len(s) THEN Append(out, SubSeq(s, start, Len(s)))
    ELSE IF IsSpace(Char(s, i)) /\ i > 1 /\ Char(s, i - 1) \in {".", "!", "?"}
    THEN SentenceSplitFrom(s, RunEnd(s, i) + 1, RunEnd(s, i) + 1,
                           Append(out, SubSeq(s, start, i - 1)))
    ELSE SentenceSplitFrom(s, i + 1, start, out)
SentenceSplit(s) == SentenceSplitFrom(s, 1, 1, <<>>)

\* The score of one sentence (lines 131-140).  Python's score is an int, or
\* the float score * 1.5; score_x2 is twice that number, an integer.
SentenceScore_x2(sentence, query_lower, query_terms) ==
    LET sentence_lower == Lower(sentence)
        hits == Cardinality({k \in DOMAIN query_terms :
                                 Contains(sentence_lower, query_terms[k])})
        score == hits + (IF Contains(sentence_lower, query_lower)
                         THEN Len(query_terms) ELSE 0)
    IN IF score > 1 THEN 3 * score ELSE 2 * score

\* sentence_scores as built by the loop of lines 130-142 (i is 0-based)
ScoreAll(sentences, query_lower, query_terms) ==
    [k \in DOMAIN sentences |->
        [i |-> k - 1,
         score_x2 |-> SentenceScore_x2(sentences[k], query_lower, query_terms),
         sentence |-> sentences[k]]]

RECURSIVE InsertDesc_TiesFirst(_, _)
\* (variant: an entry goes before the entries of equal score)
InsertDesc_TiesFirst(sorted, x) ==
    IF sorted = <<>> THEN <<x>>
    ELSE IF Head(sorted).score_x2 > x.score_x2
    THEN <<Head(sorted)>> \o InsertDesc_TiesFirst(Tail(sorted), x)
    ELSE <<x>> \o sorted

RECURSIVE InsertDesc(_, _)
\* x put after every entry whose score is at least its own
InsertDesc(sorted, x) ==
    IF sorted = <<>> THEN <<x>>
    ELSE IF Head(sorted).score_x2 >= x.score_x2
    THEN <<Head(sorted)>> \o InsertDesc(Tail(sorted), x)
    ELSE <<x>> \o sorted

RECURSIVE SortDescFrom(_, _, _)
SortDescFrom(xs, k, sorted) ==
    IF k > Len(xs) THEN sorted ELSE SortDescFrom(xs, k + 1, InsertDesc(sorted, xs[k]))
\* list.sort(key=score, reverse=True): stable, entries of equal score keep
\* their order
SortDesc(xs) == SortDescFrom(xs, 1, <<>>)

\* The replacement template of pattern.sub (re's template syntax).  A
\* backslash followed by an ASCII letter other than a b f n r t v, or by a
\* digit that names a group the pattern does not have, is an error; the
\* pattern re.escape(term) has no groups.  One control character that a
\* TLA+ string cannot hold is written "?".

RECURSIVE ExpandTemplateFrom(_, _, _, _)
\* [ok |-> the template is well formed, text |-> its expansion for match m]
ExpandTemplateFrom(t, i, m, out) ==
    IF i > Len(t) THEN [ok |-> TRUE, text |-> out]
    ELSE IF Char(t, i) # "\\" THEN ExpandTemplateFrom(t, i + 1, m, out \o Char(t, i))
    ELSE IF i = Len(t) THEN [ok |-> FALSE, text |-> ""]
    ELSE LET c == Char(t, i + 1)
         IN CASE c = "\\" -> ExpandTemplateFrom(t, i + 2, m, out \o "\\")
              [] c = "n" -> ExpandTemplateFrom(t, i + 2, m, out \o "\n")
              [] c = "t" -> ExpandTemplateFrom(t, i + 2, m, out \o "\t")
              [] c = "r" -> ExpandTemplateFrom(t, i + 2, m, out \o "\r")
              [] c = "f" -> ExpandTemplateFrom(t, i + 2, m, out \o "\f")
              [] c \in {"a", "b", "v"} -> ExpandTemplateFrom(t, i + 2, m, out \o "?")
              [] c = "g" ->
                   IF SubSeq(t, i + 2, i + 4) = "<0>"
                   THEN ExpandTemplateFrom(t, i + 5, m, out \o m)
                   ELSE [ok |-> FALSE, text |-> ""]
              [] c = "0" ->
                   LET n == IF i + 2 <= Len(t) /\ IsOctal(Char(t, i + 2))
                            THEN (IF i + 3 <= Len(t) /\ IsOctal(Char(t, i + 3))
                                  THEN 4 ELSE 3)
                            ELSE 2
                   IN ExpandTemplateFrom(t, i + n, m, out \o "?")
              [] IsDigit(c) /\ c # "0" ->
                   IF /\ c \in {"1", "2", "3"} /\ i + 3 <= Len(t)
                      /\ IsOctal(Char(t, i + 2)) /\ IsOctal(Char(t, i + 3))
                   THEN ExpandTemplateFrom(t, i + 4, m, out \o "?")
                   ELSE [ok |-> FALSE, text |-> ""]
              [] IsAsciiLetter(c) -> [ok |-> FALSE, text |-> ""]
              [] OTHER -> ExpandTemplateFrom(t, i + 2, m, out \o "\\" \o c)
ExpandTemplate(t, m) == ExpandTemplateFrom(t, 1, m, "")

RECURSIVE SubIgnoreCase(_, _, _, _, _)
\* re.compile(re.escape(term), re.IGNORECASE).sub(template, s): every
\* occurrence of term, compared letter-case-insensitively, found from left to
\* right without overlap, is replaced by the expanded template
SubIgnoreCase(s, term, template, i, out) ==
    IF i > Len(s) THEN out
    ELSE IF i + Len(term) - 1 <= Len(s) /\ Lower(SubSeq(s, i, i + Len(term) - 1)) = Lower(term)
    THEN SubIgnoreCase(s, term, template, i + Len(term),
                       out \o ExpandTemplate(template, SubSeq(s, i, i + Len(term) - 1)).text)
    ELSE SubIgnoreCase(s, term, template, i + 1, out \o Char(s, i))

RECURSIVE HighlightFrom(_, _, _)
\* the loop of lines 166-169: [raised |-> a template was rejected, text |-> snippet]
HighlightFrom(snippet, query_terms, k) ==
    IF k > Len(query_terms) THEN [raised |-> FALSE, text |-> snippet]
    ELSE LET template == "**" \o query_terms[k] \o "**"
         IN IF ~ExpandTemplate(template, "").ok
            THEN [raised |-> TRUE, text |-> snippet]
            ELSE HighlightFrom(SubIgnoreCase(snippet, query_terms[k], template, 1, ""),
                               query_terms, k + 1)

\* floats that are ratios of small integers: <<numerator, denominator>> in
\* lowest terms
RECURSIVE Gcd(_, _)
Gcd(a, b) == IF b = 0 THEN a ELSE Gcd(b, a % b)
Ratio(a, b) == <<a \div Gcd(a, b), b \div Gcd(a, b)>>
Zero == <<0, 1>>
One == <<1, 1>>

\* min(1.0, best_score / len(query_terms)); the division raises
\* ZeroDivisionError for an empty term list
Relevance(best_score_x2, n) ==
    IF n = 0 THEN [raised |-> TRUE, value |-> Zero]
    ELSE IF best_score_x2 >= 2 * n THEN [raised |-> FALSE, value |-> One]
    ELSE [raised |-> FALSE, value |-> Ratio(best_score_x2, 2 * n)]

\* "max_length: int = 300"
DefaultMaxLength == 300

\* the dictionaries the function returns, and a raised exception
Outcome(snippet, score, highlighted, has_terms, terms) ==
    [raised |-> "", snippet |-> snippet, relevance_score |-> score,
     highlighted |-> highlighted, has_matched_terms |-> has_terms,
     matched_terms |-> terms]
Raise(exception) ==
    [raised |-> exception, snippet |-> "", relevance_score |-> Zero,
     highlighted |-> FALSE, has_matched_terms |-> FALSE, matched_terms |-> <<>>]

\* (variant: the cut is made at the last space of the whole snippet)
TrimToMaxLength_NoSlice(snippet, maxlen) ==
    IF Len(snippet) > maxlen
    THEN RSplit1Head(snippet, " ") \o "..."
    ELSE snippet

\* lines 172-173
TrimToMaxLength(snippet, maxlen) ==
    IF Len(snippet) > maxlen
    THEN RSplit1Head(Prefix(snippet, maxlen), " ") \o "..."
    ELSE snippet

\* start_idx = max(0, best_idx - 1)
ContextStart(best_idx) == IF best_idx - 1 > 0 THEN best_idx - 1 ELSE 0
\* (variant: the window stops at the best sentence)
ContextEnd_NoFollowing(best_idx, n) == IF n < best_idx + 1 THEN n ELSE best_idx + 1
\* end_idx = min(len(sentences), best_idx + 2)
ContextEnd(best_idx, n) == IF n < best_idx + 2 THEN n ELSE best_idx + 2
\* " ".join(sentences[start_idx:end_idx])
ContextWindow(sentences, best_idx) ==
    Join(" ", SubSeq(sentences, ContextStart(best_idx) + 1,
                     ContextEnd(best_idx, Len(sentences))))

\* the locals of lines 122-145
SnippetLocals(c, q) ==
    LET query_lower == Lower(q)
        query_terms == Split(query_lower)
        sentences == SentenceSplit(c)
    IN [query_lower |-> query_lower, query_terms |-> query_terms,
        sentences |-> sentences,
        sentence_scores |-> SortDesc(ScoreAll(sentences, query_lower, query_terms))]

extract_smart_snippet(c, q, maxlen) ==
    IF c = "" THEN Outcome("", Zero, FALSE, FALSE, <<>>)
    ELSE LET l == SnippetLocals(c, q)
         IN IF l.sentence_scores = <<>> \/ l.sentence_scores[1].score_x2 = 0
            THEN Outcome(IF Len(c) > maxlen THEN Prefix(c, maxlen) \o "..." ELSE c,
                         Zero, FALSE, FALSE, <<>>)
            ELSE LET best == l.sentence_scores[1]
                     window == ContextWindow(l.sentences, best.i)
                     marked == HighlightFrom(window, l.query_terms, 1)
                     score == Relevance(best.score_x2, Len(l.query_terms))
                 IN IF marked.raised THEN Raise("re.error")
                    ELSE IF score.raised THEN Raise("ZeroDivisionError")
                    ELSE Outcome(TrimToMaxLength(marked.text, maxlen), score.value, TRUE, TRUE,
                                 SelectSeq(l.query_terms,
                                           LAMBDA term : Contains(Lower(best.sentence), term)))

--------------------------------------------------------------------------
(* Search results: the mappings of a search response, as nested values     *)

\* the JSON null
NoneValue == [tag |-> "none", str |-> "", keys |-> <<>>, kids |-> <<>>]

IsStr(v) == v.tag = "str"
\* "key in result"
KeyIn(v, k) == k \in Range(v.keys)
\* result.get(key, default)
DictGet(v, k, default) == IF KeyIn(v, k) THEN v.kids[IndexOf(v.keys, k)] ELSE default

\* xs[:n]
FirstN(xs, n) == SubSeq(xs, 1, IF Len(xs) < n THEN Len(xs) ELSE n)

--------------------------------------------------------------------------
(* suggest_alternative_queries (server.py lines 392-417)                   *)

EndsWith(s, suffix) ==
    Len(s) >= Len(suffix) /\ SubSeq(s, Len(s) - Len(suffix) + 1, Len(s)) = suffix

RECURSIVE ReplaceFrom(_, _, _, _, _)
\* str.replace(old, new) for a non-empty old: the occurrences from the left,
\* not overlapping
ReplaceFrom(s, old, new, i, out) ==
    IF i > Len(s) THEN out
    ELSE IF i + Len(old) - 1 <= Len(s) /\ SubSeq(s, i, i + Len(old) - 1) = old
    THEN ReplaceFrom(s, old, new, i + Len(old), out \o new)
    ELSE ReplaceFrom(s, old, new, i + 1, out \o Char(s, i))
Replace(s, old, new) == ReplaceFrom(s, old, new, 1, "")

\* the dictionary "synonyms" (lines 403-409), in its order
synonyms ==
    << [word |-> "login", alts |-> <<"authentication", "sign in", "access">>],
       [word |-> "error", alts |-> <<"issue", "problem", "troubleshooting">>],
       [word |-> "create", alts |-> <<"add", "new", "make">>],
       [word |-> "delete", alts |-> <<"remove", "destroy", "clear">>],
       [word |-> "update", alts |-> <<"modify", "change", "edit">>] >>

\* "return suggestions[:3]"
SuggestionLimit == 3

\* (variant: the flip is made on the lower-cased query)
SingularPlural_Lowered(q) ==
    IF EndsWith(Lower(q), "s") THEN Prefix(Lower(q), Len(q) - 1) ELSE Lower(q) \o "s"

\* lines 397-400
SingularPlural(q) ==
    IF EndsWith(q, "s") THEN Prefix(q, Len(q) - 1) ELSE q \o "s"

RECURSIVE SynonymLoop(_, _, _)
\* "for word, alts in synonyms.items()" from the k-th entry on (lines 412-415)
SynonymLoop(query_lower, k, found) ==
    IF k > Len(synonyms) THEN found
    ELSE IF Contains(query_lower, synonyms[k].word)
    THEN SynonymLoop(query_lower, k + 1,
                     found \o [a \in DOMAIN synonyms[k].alts |->
                                        Replace(query_lower, synonyms[k].word,
                                                synonyms[k].alts[a])])
    ELSE SynonymLoop(query_lower, k + 1, found)

suggest_alternative_queries(q) ==
    FirstN(SynonymLoop(Lower(q), 1, <<SingularPlural(q)>>), SuggestionLimit)

--------------------------------------------------------------------------
(* enhance_search_results (server.py lines 324-389)                        *)

\* "results[:10]"
TopResults == 10

\* the relevance 0.5 of a result without content
Half == <<1, 2>>

\* the keys of the dictionary "categories" (lines 336-342), in its order
category_names == <<"guides", "api", "troubleshooting", "reference", "concepts">>

\* (variant: the reference bucket is tested first)
Category_ReferenceFirst(path) ==
    IF Contains(path, "reference") THEN "reference"
    ELSE IF Contains(path, "guide") \/ Contains(path, "how-to") THEN "guides"
    ELSE IF Contains(path, "api") THEN "api"
    ELSE IF Contains(path, "troubleshoot") \/ Contains(path, "error") THEN "troubleshooting"
    ELSE "concepts"

\* the if/elif chain of lines 368-377 on the lower-cased path
Category(path) ==
    IF Contains(path, "guide") \/ Contains(path, "how-to") THEN "guides"
    ELSE IF Contains(path, "api") THEN "api"
    ELSE IF Contains(path, "troubleshoot") \/ Contains(path, "error") THEN "troubleshooting"
    ELSE IF Contains(path, "reference") THEN "reference"
    ELSE "concepts"

\* truth value of an Optional[str]: None and "" are false
Truthy(a) == a.found /\ a.text # ""

\* (variant: the quick answer is tried on every result until one is found)
QuickAnswerAttempted_AnyIndex(idx, quick_answer) == ~Truthy(quick_answer)

\* "if idx == 0 and not enhanced['quick_answer']" (line 351)
QuickAnswerAttempted(idx, quick_answer) == idx = 0 /\ ~Truthy(quick_answer)

\* the dictionary the function returns, and a raised exception
Enhanced(q, n, enhanced_results, quick_answer, suggested, cats) ==
    [raised |-> "", query |-> q, total_results |-> n,
     enhanced_results |-> enhanced_results, quick_answer |-> quick_answer,
     suggested_queries |-> suggested, categories |-> cats]
EnhanceRaise(exception) ==
    [raised |-> exception, query |-> "", total_results |-> 0,
     enhanced_results |-> <<>>, quick_answer |-> None,
     suggested_queries |-> <<>>, categories |-> <<>>]

\* {**result, "relevance_score": ..., "smart_snippet": ..., "highlighted_terms": ...}
EnhancedResult(item, score, snippet, terms) ==
    [result |-> item, relevance_score |-> score, smart_snippet |-> snippet,
     highlighted_terms |-> terms]

\* lines 357-377 for one result, given its snippet_data and the quick answer
\* extracted from it (None when none was attempted): the exception raised,
\* or the enhanced result, its bucket and enhanced["quick_answer"] after it
EnhanceStep(item, quick_answer, snippet_data, quick) ==
    LET has_content == KeyIn(item, "content")
        path == DictGet(item, "path", Str(""))
        enhanced_result ==
            IF has_content
            THEN EnhancedResult(item, snippet_data.relevance_score,
                                Str(snippet_data.snippet), snippet_data.matched_terms)
            ELSE EnhancedResult(item, Half, DictGet(item, "description", Str("")), <<>>)
        raised ==
            IF has_content /\ snippet_data.raised # "" THEN snippet_data.raised
            ELSE IF quick.raised # "" THEN quick.raised
            ELSE IF ~IsStr(path) THEN "AttributeError"
            ELSE ""
    IN [raised |-> raised, enhanced_result |-> enhanced_result,
        category |-> IF raised = "" THEN Category(Lower(path.str)) ELSE "",
        quick_answer |-> IF raised = "" /\ Truthy(quick) THEN quick ELSE quick_answer]

\* one pass of the loop body (lines 346-377) for the result at index idx.
\* The content of a result is a string.
EnhanceOne(item, q, idx, quick_answer) ==
    EnhanceStep(item, quick_answer,
                IF KeyIn(item, "content")
                THEN extract_smart_snippet(DictGet(item, "content", Str("")).str, q,
                                           DefaultMaxLength)
                ELSE Raise(""),
                IF KeyIn(item, "content") /\ QuickAnswerAttempted(idx, quick_answer)
                THEN extract_quick_answer(DictGet(item, "content", Str("")).str, q)
                ELSE None)

RECURSIVE EnhanceLoop(_, _, _, _), EnhanceNext(_, _, _, _, _)
\* "for idx, result in enumerate(results[:10])" from index idx on; acc holds
\* enhanced["enhanced_results"], enhanced["quick_answer"] and "categories"
EnhanceLoop(top, q, idx, acc) ==
    IF idx >= Len(top) THEN acc
    ELSE EnhanceNext(top, q, idx, acc, EnhanceOne(top[idx + 1], q, idx, acc.quick_answer))
\* the loop after the pass "one" for the result at index idx
EnhanceNext(top, q, idx, acc, one) ==
    IF one.raised # "" THEN [acc EXCEPT !.raised = one.raised]
    ELSE EnhanceLoop(top, q, idx + 1,
             [raised |-> "",
              enhanced_results |-> Append(acc.enhanced_results, one.enhanced_result),
              quick_answer |-> one.quick_answer,
              categories |-> [acc.categories EXCEPT ![one.category] =
                                  Append(@, one.enhanced_result)]])

\* a < b for ratios
RatioLess(a, b) == a[1] * b[2] < b[1] * a[2]

RECURSIVE InsertByRelevance_TiesFirst(_, _)
\* (variant: an entry goes before the entries of equal relevance)
InsertByRelevance_TiesFirst(sorted, x) ==
    IF sorted = <<>> THEN <<x>>
    ELSE IF RatioLess(x.relevance_score, Head(sorted).relevance_score)
    THEN <<Head(sorted)>> \o InsertByRelevance_TiesFirst(Tail(sorted), x)
    ELSE <<x>> \o sorted

RECURSIVE InsertByRelevance(_, _)
\* x put into a list sorted by relevance_score, largest first, after the
\* entries of equal relevance (list.sort is stable, also with reverse=True)
InsertByRelevance(sorted, x) ==
    IF sorted = <<>> THEN <<x>>
    ELSE IF RatioLess(Head(sorted).relevance_score, x.relevance_score)
    THEN <<x>> \o sorted
    ELSE <<Head(sorted)>> \o InsertByRelevance(Tail(sorted), x)

RECURSIVE SortByRelevanceFrom(_, _, _)
SortByRelevanceFrom(xs, k, sorted) ==
    IF k > Len(xs) THEN sorted
    ELSE SortByRelevanceFrom(xs, k + 1, InsertByRelevance(sorted, xs[k]))
\* enhanced["enhanced_results"].sort(key=..., reverse=True) (line 387)
SortByRelevance(xs) == SortByRelevanceFrom(xs, 1, <<>>)

\* {k: len(v) for k, v in categories.items() if v} (line 380)
CategoryCounts(categories) ==
    LET kept == SelectSeq(category_names, LAMBDA k : categories[k] # <<>>)
    IN [i \in DOMAIN kept |-> [name |-> kept[i], count |-> Len(categories[kept[i]])]]

\* lines 379-389, acc being what the loop left
EnhanceFinish(rs, q, acc) ==
    IF acc.raised # "" THEN EnhanceRaise(acc.raised)
    ELSE Enhanced(q, Len(rs), SortByRelevance(acc.enhanced_results), acc.quick_answer,
                  IF rs = <<>> THEN suggest_alternative_queries(q) ELSE <<>>,
                  CategoryCounts(acc.categories))

enhance_search_results(rs, q) ==
    EnhanceFinish(rs, q,
                  EnhanceLoop(FirstN(rs, TopResults), q, 0,
                              [raised |-> "", enhanced_results |-> <<>>,
                               quick_answer |-> None,
                               categories |-> [k \in Range(category_names) |-> <<>>]]))

--------------------------------------------------------------------------
(* get_related_content (server.py lines 184-235)                           *)

RECURSIVE LStripChar(_, _), RStripChar(_, _)
LStripChar(s, c) == IF s # "" /\ Char(s, 1) = c THEN LStripChar(Suffix(s, 1), c) ELSE s
RStripChar(s, c) ==
    IF s # "" /\ Char(s, Len(s)) = c THEN RStripChar(Prefix(s, Len(s) - 1), c) ELSE s
\* s.strip("/")
StripChar(s, c) == RStripChar(LStripChar(s, c), c)

RECURSIVE SplitOnFrom(_, _, _, _, _)
\* s.split(sep) for a one-character separator: the empty pieces are kept
SplitOnFrom(s, sep, i, cur, out) ==
    IF i > Len(s) THEN Append(out, cur)
    ELSE IF Char(s, i) = sep THEN SplitOnFrom(s, sep, i + 1, "", Append(out, cur))
    ELSE SplitOnFrom(s, sep, i + 1, cur \o Char(s, i), out)
SplitOn(s, sep) == SplitOnFrom(s, sep, 1, "", <<>>)

\* "related[key] = related[key][:3]"
RelatedLimit == 3

\* the dictionaries the function returns, and a raised exception
Related(same, parents, children) ==
    [raised |-> "", sectioned |-> TRUE, same_section |-> same,
     parent_topics |-> parents, child_topics |-> children, see_also |-> <<>>]
\* {"related": []}
RelatedEmpty ==
    [raised |-> "", sectioned |-> FALSE, same_section |-> <<>>,
     parent_topics |-> <<>>, child_topics |-> <<>>, see_also |-> <<>>]
RelatedRaise(exception) == [RelatedEmpty EXCEPT !.raised = exception]

\* {"title": ..., "path": result_path, "portal_url": ...}
RelatedEntry(item, result_path) ==
    [title |-> DictGet(item, "title", Str("")), path |-> result_path,
     portal_url |-> DictGet(item, "portal_url", Str(""))]

\* the if/elif chain of lines 208-229: the list the result goes to, "" for none
RelatedBucket(cp, current_section, result_path) ==
    LET result_parts == SplitOn(StripChar(result_path, "/"), "/")
    IN IF result_parts # <<>> /\ result_parts[1] = current_section THEN "same_section"
       ELSE IF result_path # "" /\ StartsWith(cp, result_path) THEN "parent_topics"
       ELSE IF StartsWith(result_path, cp) THEN "child_topics"
       ELSE ""

RECURSIVE RelatedLoop(_, _, _, _)
\* "for result in all_results" from the k-th result on (lines 200-229)
RelatedLoop(cp, all_results, k, rel) ==
    IF k > Len(all_results) THEN rel
    ELSE LET item == all_results[k]
             path == DictGet(item, "path", Str(""))
         IN IF KeyIn(item, "path") /\ path = Str(cp)
            THEN RelatedLoop(cp, all_results, k + 1, rel)
            ELSE IF ~IsStr(path) THEN RelatedRaise("AttributeError")
            ELSE LET current_section == SplitOn(StripChar(cp, "/"), "/")[1]
                     bucket == RelatedBucket(cp, current_section, path.str)
                     entry == RelatedEntry(item, path.str)
                 IN RelatedLoop(cp, all_results, k + 1,
                        IF bucket = "" THEN rel
                        ELSE [rel EXCEPT ![bucket] = Append(@, entry)])

get_related_content(cp, all_results) ==
    IF cp = "" THEN RelatedEmpty
    ELSE LET rel == RelatedLoop(cp, all_results, 1, Related(<<>>, <<>>, <<>>))
         IN IF rel.raised # "" THEN rel
            ELSE Related(FirstN(rel.same_section, RelatedLimit),
                         FirstN(rel.parent_topics, RelatedLimit),
                         FirstN(rel.child_topics, RelatedLimit))

--------------------------------------------------------------------------
(* extract_key_facts, extract_sections, extract_parent_path and            *)
(* generate_learning_path (server.py lines 282-320 and 420-475)            *)

\* the rest of the line behind the run of whitespace that starts at
\* position i, "" when there is no whitespace at i: \s+(.+)$ on a stripped line
AfterSpaces(line, i) ==
    IF i <= Len(line) /\ IsSpace(Char(line, i))
    THEN LStrip(Suffix(line, i - 1))
    ELSE ""

\* the length of the run of digits a line starts with
RECURSIVE DigitRun(_, _)
DigitRun(line, i) ==
    IF i <= Len(line) /\ IsDigit(Char(line, i)) THEN DigitRun(line, i + 1) ELSE i - 1

\* the characters of the first bullet pattern (line 426); none of them is
\* in the character set of the model
bullet_characters == {}

\* the first of bullet_patterns (lines 425-429) that matches the stripped
\* line gives group(1).strip(); "" when none matches
KeyFact(stripped) ==
    IF stripped = "" THEN ""
    ELSE IF Char(stripped, 1) \in bullet_characters /\ Len(stripped) > 1
    THEN Strip(Suffix(stripped, 1))
    ELSE IF Char(stripped, 1) \in {"-", "*"} /\ AfterSpaces(stripped, 2) # ""
    THEN Strip(AfterSpaces(stripped, 2))
    ELSE IF DigitRun(stripped, 1) > 0
            /\ DigitRun(stripped, 1) < Len(stripped)
            /\ Char(stripped, DigitRun(stripped, 1) + 1) = "."
            /\ AfterSpaces(stripped, DigitRun(stripped, 1) + 2) # ""
    THEN Strip(AfterSpaces(stripped, DigitRun(stripped, 1) + 2))
    ELSE ""

\* "return facts[:5]"
FactsLimit == 5

extract_key_facts(c) ==
    LET lines == IF c # "" THEN SplitOn(c, "\n") ELSE <<>>
        facts == SelectSeq([i \in DOMAIN lines |-> KeyFact(Strip(lines[i]))],
                           LAMBDA fact : fact # "")
    IN FirstN(facts, FactsLimit)

\* the length of the run of "#" a line starts with
RECURSIVE HashRun(_, _)
HashRun(line, i) ==
    IF i <= Len(line) /\ Char(line, i) = "#" THEN HashRun(line, i + 1) ELSE i - 1

\* the deepest heading of heading_patterns (lines 447-451)
DeepestHeading == 3

\* the heading a stripped line is: its level (0 for no heading) and title
Heading(stripped) ==
    LET level == HashRun(stripped, 1)
    IN IF level >= 1 /\ level <= DeepestHeading /\ AfterSpaces(stripped, level + 1) # ""
       THEN [title |-> AfterSpaces(stripped, level + 1), level |-> level]
       ELSE [title |-> "", level |-> 0]

extract_sections(c) ==
    LET lines == IF c # "" THEN SplitOn(c, "\n") ELSE <<>>
    IN SelectSeq([i \in DOMAIN lines |-> Heading(Strip(lines[i]))],
                 LAMBDA section : section.level # 0)

\* lines 467-475
extract_parent_path(path) ==
    IF path = "" \/ path = "/" THEN "/"
    ELSE LET parts == SplitOn(RStripChar(path, "/"), "/")
         IN IF Len(parts) > 1 THEN Join("/", SubSeq(parts, 1, Len(parts) - 1)) ELSE "/"

\* the dictionary "learning_paths" (lines 285-306), in its order; the step
\* number of an entry is its position
learning_paths ==
    << [key |-> "getting-started",
        path |-> << [title |-> "Overview", path |-> "/overview"],
                    [title |-> "Installation", path |-> "/installation"],
                    [title |-> "Configuration", path |-> "/configuration"],
                    [title |-> "First Steps", path |-> "/first-steps"],
                    [title |-> "Best Practices", path |-> "/best-practices"] >>],
       [key |-> "api",
        path |-> << [title |-> "API Overview", path |-> "/api/overview"],
                    [title |-> "Authentication", path |-> "/api/authentication"],
                    [title |-> "Making Requests", path |-> "/api/requests"],
                    [title |-> "Response Handling", path |-> "/api/responses"],
                    [title |-> "Error Handling", path |-> "/api/errors"] >>],
       [key |-> "troubleshooting",
        path |-> << [title |-> "Common Issues", path |-> "/troubleshooting/common"],
                    [title |-> "Error Messages", path |-> "/troubleshooting/errors"],
                    [title |-> "Debugging Steps", path |-> "/troubleshooting/debugging"],
                    [title |-> "Getting Help", path |-> "/support"] >>] >>

\* lines 315-320
default_learning_path ==
    << [title |-> "Start Here", path |-> "/"],
       [title |-> "Core Concepts", path |-> "/concepts"],
       [title |-> "Practical Guides", path |-> "/guides"],
       [title |-> "Reference", path |-> "/reference"] >>

generate_learning_path(current_topic) ==
    LET topic_lower == Lower(current_topic)
        hits == {k \in DOMAIN learning_paths : Contains(topic_lower, learning_paths[k].key)}
    IN IF hits = {} THEN default_learning_path
       ELSE learning_paths[CHOOSE k \in hits : \A j \in hits : k <= j].path

--------------------------------------------------------------------------
(* format_response_with_prominent_urls (server.py lines 86-112)            *)
(*                                                                         *)
(* A tool's result is the mapping the API returned, annotated, overlaid    *)
(* with the fields the handler adds to it: [data, added, ...] where added  *)
(* is the set of the added keys and each added key has a field.            *)

NoExtras ==
    [added |-> {},
     enhanced_search |-> [quick_answer |-> None, total_results |-> 0,
                          categories |-> <<>>, top_results |-> <<>>],
     suggested_learning_path |-> <<>>,
     did_you_mean |-> <<>>,
     key_facts |-> <<>>,
     sections |-> <<>>,
     related_suggestions |-> [next_steps |-> "", parent_topic |-> ""],
     quick_links |-> <<>>,
     direct_link |-> [title |-> NoneValue, url |-> NoneValue, message |-> ""]]

\* str(n) for the small numbers of the model
IntToStr(n) ==
    LET digit(d) == CASE d = 0 -> "0" [] d = 1 -> "1" [] d = 2 -> "2" [] d = 3 -> "3"
                      [] d = 4 -> "4" [] d = 5 -> "5" [] d = 6 -> "6" [] d = 7 -> "7"
                      [] d = 8 -> "8" [] d = 9 -> "9"
    IN IF n < 10 THEN digit(n) ELSE digit((n \div 10) % 10) \o digit(n % 10)

\* "result.get('description', '')[:100]"
DescriptionLimit == 100

\* lines 97-101; the items of a result list are mappings, their descriptions
\* strings
LinkInfo(item, idx) ==
    [title |-> DictGet(item, "title", Str("Result " \o IntToStr(idx + 1))),
     url |-> DictGet(item, "portal_url", NoneValue),
     description |->
         IF DictGet(item, "description", Str("")).str # ""
         THEN Prefix(DictGet(item, "description", Str("")).str, DescriptionLimit) \o "..."
         ELSE ""]

\* lines 92-102
QuickLinks(items) ==
    LET linked == SelectSeq([i \in DOMAIN items |-> [idx |-> i - 1, item |-> items[i]]],
                            LAMBDA e : KeyIn(e.item, "portal_url"))
    IN [i \in DOMAIN linked |-> LinkInfo(linked[i].item, linked[i].idx)]

\* lines 105-110; the message is the text behind its leading pictograph
DirectLink(data) ==
    [title |-> DictGet(data, "title", Str("Document")),
     url |-> DictGet(data, "portal_url", NoneValue),
     message |-> "View this document online: " \o DictGet(data, "portal_url", Str("")).str]

format_response_with_prominent_urls(data, extras) ==
    IF PORTAL_BASE_URL = "" \/ data.tag # "dict" THEN extras
    ELSE LET with_links ==
                 IF KeyIn(data, "results") /\ DictGet(data, "results", NoneValue).tag = "list"
                 THEN [extras EXCEPT !.added = @ \cup {"quick_links"},
                                     !.quick_links =
                                         QuickLinks(DictGet(data, "results", NoneValue).kids)]
                 ELSE extras
         IN IF KeyIn(data, "portal_url") /\ KeyIn(data, "content")
            THEN [with_links EXCEPT !.added = @ \cup {"direct_link"},
                                    !.direct_link = DirectLink(data)]
            ELSE with_links

--------------------------------------------------------------------------
(* handle_list_tools (server.py lines 479-613)                             *)

\* an entry of additional_props: its name, its "required" entry (True when
\* it has none) and whether it has a "default" entry
Prop(prop, required, has_default) ==
    [name |-> prop, required |-> required, has_default |-> has_default]

\* build_schema (lines 483-529): the names of the properties and the list
\* "required"; a default that is unset or empty makes the id required
build_schema(additional_props) ==
    LET needed == SelectSeq(additional_props, LAMBDA p : p.required /\ ~p.has_default)
    IN [properties |-> <<"organization_id", "deployment_id">>
                       \o [i \in DOMAIN additional_props |-> additional_props[i].name],
        required |-> (IF DEFAULT_ORG_ID # "" THEN <<>> ELSE <<"organization_id">>)
                     \o (IF DEFAULT_DEPLOYMENT_ID # "" THEN <<>> ELSE <<"deployment_id">>)
                     \o [i \in DOMAIN needed |-> needed[i].name]]

Tool(tool, schema) == [name |-> tool, inputSchema |-> schema]

\* lines 531-613
handle_list_tools ==
    << Tool("search_deployment", build_schema(<<Prop("query", TRUE, FALSE)>>)),
       Tool("get_content", build_schema(<<Prop("for_path", FALSE, FALSE),
                                          Prop("for_id", FALSE, FALSE)>>)),
       Tool("get_deployment_structure", build_schema(<<>>)),
       Tool("get_deployment_info", build_schema(<<>>)),
       Tool("get_html_strings", build_schema(<<Prop("locale", FALSE, TRUE)>>)),
       Tool("get_open_api_spec", build_schema(<<Prop("specification_id", TRUE, FALSE)>>)),
       Tool("generate_portal_urls", [properties |-> <<"paths">>, required |-> <<"paths">>]),
       Tool("test_portal_url", [properties |-> <<>>, required |-> <<>>]) >>

--------------------------------------------------------------------------
(* handle_call_tool (server.py lines 616-808)                              *)
(*                                                                         *)
(* What the API client does for a call is an input: it returns a JSON      *)
(* value (and, for the OpenAPI specification, a text), or raises.          *)

ApiOk(v, text) == [raised |-> FALSE, value |-> v, text |-> text,
                   message |-> "", status_code |-> "", response_text |-> ""]
\* raise_for_status(): an HTTPError that carries the response
ApiHttpError(message, status_code, response_text) ==
    [raised |-> TRUE, value |-> NoneValue, text |-> "",
     message |-> message, status_code |-> status_code, response_text |-> response_text]
\* an exception whose "response" is None
ApiNoResponse(message) == ApiHttpError(message, "", "")

\* the TextContent the handler returns: a plain text, or json.dumps of a
\* result, kept as the result itself; log holds the lines written to stderr
TextContent(text, log) ==
    [json |-> FALSE, text |-> text, data |-> NoneValue, extras |-> NoExtras, log |-> log]
JsonContent(data, extras, log) ==
    [json |-> TRUE, text |-> "", data |-> data, extras |-> extras, log |-> log]

\* lines 799-808 for an exception of the API client
ApiErrorContent(tool, failure) ==
    TextContent("Error calling " \o tool \o ": " \o failure.message
                \o (IF failure.status_code # ""
                    THEN "\nStatus code: " \o failure.status_code
                         \o "\nResponse: " \o failure.response_text
                    ELSE ""),
                <<>>)
\* lines 799-808 for an exception raised by the handler's own code; the
\* message of a helper's exception is given by the name of its class
ErrorContent(tool, message, log) ==
    TextContent("Error calling " \o tool \o ": " \o message, log)

\* f"{PORTAL_BASE_URL}{path}" or f"{PORTAL_BASE_URL}/{path}" (lines 759-762, 782-785)
PortalUrl(path) ==
    IF StartsWith(path, "/") THEN PORTAL_BASE_URL \o path ELSE PORTAL_BASE_URL \o "/" \o path

\* {"path": path, "portal_url": url}
UrlEntry(path) == Dict(<<"path", "portal_url">>, <<Str(path), Str(PortalUrl(path))>>)

\* result = add_urls_to_response(result) on what the API returned
Annotated(r) == [data |-> Value(r.heap, r.ref), log |-> r.log]
AnnotateLoaded(loaded) ==
    Annotated(add_urls_to_response([heap |-> loaded.heap, log |-> <<>>], loaded.ref, 0))
AnnotateResult(v) == AnnotateLoaded(Load(<<>>, v))

\* "results[:5]" of the enhanced results
TopLinked == 5

\* lines 654-680, given the annotated result and, when it has "results",
\* what enhance_search_results made of them
SearchResult(q, annotated, items, enh) ==
    LET data == annotated.data
        before == <<[depth |-> 0, line |-> "Search result before URL addition"]>>
        done == <<[depth |-> 0, line |-> "Enhanced search complete for query: " \o q]>>
        has_results == data.tag = "dict" /\ KeyIn(data, "results")
        extras ==
            IF has_results
            THEN [NoExtras EXCEPT
                     !.added = {"enhanced_search", "suggested_learning_path"}
                               \cup (IF items = <<>> THEN {"did_you_mean"} ELSE {}),
                     !.enhanced_search =
                         [quick_answer |-> enh.quick_answer,
                          total_results |-> enh.total_results,
                          categories |-> enh.categories,
                          top_results |-> FirstN(enh.enhanced_results, TopLinked)],
                     !.suggested_learning_path = generate_learning_path(q),
                     !.did_you_mean =
                         IF items = <<>> THEN suggest_alternative_queries(q) ELSE <<>>]
            ELSE NoExtras
    IN IF has_results /\ enh.raised # ""
       THEN ErrorContent("search_deployment", enh.raised, before \o annotated.log)
       ELSE JsonContent(data, format_response_with_prominent_urls(data, extras),
                        before \o annotated.log \o done)

\* lines 650-680, given the annotated result
SearchAnnotated(q, annotated) ==
    SearchResult(q, annotated, DictGet(annotated.data, "results", List(<<>>)).kids,
                 IF annotated.data.tag = "dict" /\ KeyIn(annotated.data, "results")
                 THEN enhance_search_results(
                          DictGet(annotated.data, "results", List(<<>>)).kids, q)
                 ELSE EnhanceRaise(""))

\* lines 642-680; the query is a string, the results are a list of mappings
SearchDeployment(args, api_call) ==
    IF ~KeyIn(args, "query") THEN TextContent("Error: query is required", <<>>)
    ELSE IF api_call.raised THEN ApiErrorContent("search_deployment", api_call)
    ELSE SearchAnnotated(DictGet(args, "query", Str("")).str, AnnotateResult(api_call.value))

\* lines 684-686 and 690-692, given the annotated result
DeploymentResult(annotated) ==
    JsonContent(annotated.data,
                format_response_with_prominent_urls(annotated.data, NoExtras),
                annotated.log)

\* lines 682-692
GetDeployment(tool, api_call) ==
    IF api_call.raised THEN ApiErrorContent(tool, api_call)
    ELSE DeploymentResult(AnnotateResult(api_call.value))

\* the keys of "params" (lines 696-700)
ContentParams(args) ==
    (IF KeyIn(args, "for_path") /\ DictGet(args, "for_path", Str("")).str # ""
     THEN <<"for-path">> ELSE <<>>)
    \o (IF KeyIn(args, "for_id") /\ DictGet(args, "for_id", Str("")).str # ""
        THEN <<"for-id">> ELSE <<>>)

\* lines 705-723, given the annotated result; the content of a document is
\* a string
ContentResult(args, params, annotated) ==
    LET data == annotated.data
        body == DictGet(data, "content", Str("")).str
        with_facts ==
            IF data.tag = "dict" /\ KeyIn(data, "content")
            THEN [NoExtras EXCEPT !.added = {"key_facts", "sections"},
                                  !.key_facts = extract_key_facts(body),
                                  !.sections = extract_sections(body)]
            ELSE NoExtras
        with_related ==
            IF "for_path" \in Range(params)
            THEN [with_facts EXCEPT
                     !.added = @ \cup {"related_suggestions"},
                     !.related_suggestions =
                         [next_steps |-> "Use search_deployment to find related content",
                          parent_topic |->
                              extract_parent_path(DictGet(args, "for_path", Str("")).str)]]
            ELSE with_facts
    IN JsonContent(data, format_response_with_prominent_urls(data, with_related),
                   annotated.log)

\* lines 694-723
GetContent(args, api_call) ==
    IF api_call.raised THEN ApiErrorContent("get_content", api_call)
    ELSE ContentResult(args, ContentParams(args), AnnotateResult(api_call.value))

\* lines 745-768; "paths" is a list
GeneratePortalUrls(args) ==
    IF ~KeyIn(args, "paths") THEN TextContent("Error: paths array is required", <<>>)
    ELSE IF PORTAL_BASE_URL = ""
    THEN TextContent("Error: HERETTO_PORTAL_BASE_URL not configured. Set it in your Claude Desktop config.",
                     <<>>)
    ELSE LET strings == SelectSeq(DictGet(args, "paths", List(<<>>)).kids, IsStr)
         IN JsonContent(Dict(<<"base_url", "urls">>,
                             <<Str(PORTAL_BASE_URL),
                               List([i \in DOMAIN strings |-> UrlEntry(strings[i].str)])>>),
                        NoExtras, <<>>)

\* lines 773-776
example_paths == <<"agent-portal-help/claims-handling", "/coffee-guide/espresso">>

\* lines 770-794
TestPortalUrl ==
    JsonContent(Dict(<<"portal_base_url", "example_paths", "generated_urls">>,
                     <<Str(IF PORTAL_BASE_URL # "" THEN PORTAL_BASE_URL ELSE "NOT SET"),
                       List([i \in DOMAIN example_paths |-> Str(example_paths[i])]),
                       List(IF PORTAL_BASE_URL # ""
                            THEN [i \in DOMAIN example_paths |-> UrlEntry(example_paths[i])]
                            ELSE <<>>)>>),
                NoExtras, <<>>)

\* lines 621-808: the ids are validated before the dispatch on the name;
\* the ids are strings
handle_call_tool(tool, given, api_call) ==
    LET args == IF given = NoneValue \/ given.keys = <<>> THEN Dict(<<>>, <<>>) ELSE given
        org_id == DictGet(args, "organization_id", Str(DEFAULT_ORG_ID)).str
        deployment_id == DictGet(args, "deployment_id", Str(DEFAULT_DEPLOYMENT_ID)).str
    IN IF org_id = ""
       THEN TextContent("Error: organization_id is required (set HERETTO_DEFAULT_ORG_ID to provide a default)",
                        <<>>)
       ELSE IF deployment_id = ""
       THEN TextContent("Error: deployment_id is required (set HERETTO_DEFAULT_DEPLOYMENT_ID to provide a default)",
                        <<>>)
       ELSE CASE tool = "search_deployment" -> SearchDeployment(args, api_call)
              [] tool \in {"get_deployment_info", "get_deployment_structure"} ->
                     GetDeployment(tool, api_call)
              [] tool = "get_content" -> GetContent(args, api_call)
              [] tool = "get_html_strings" ->
                     IF api_call.raised THEN ApiErrorContent(tool, api_call)
                     ELSE JsonContent(api_call.value, NoExtras, <<>>)
              [] tool = "get_open_api_spec" ->
                     IF ~KeyIn(args, "specification_id")
                     THEN TextContent("Error: specification_id is required", <<>>)
                     ELSE IF api_call.raised THEN ApiErrorContent(tool, api_call)
                     ELSE TextContent(api_call.text, <<>>)
              [] tool = "generate_portal_urls" -> GeneratePortalUrls(args)
              [] tool = "test_portal_url" -> TestPortalUrl
              [] OTHER -> ErrorContent(tool, "Unknown tool: " \o tool, <<>>)

--------------------------------------------------------------------------
(* The parts of the state a process does not use *)

\* no search helper is running
SearchIdle ==
    /\ results = <<>>
    /\ current_path = ""
    /\ enhanced = EnhanceRaise("")
    /\ related = RelatedEmpty
    /\ suggestions = <<>>

\* no tool call is going on
ToolsIdle ==
    /\ DEFAULT_ORG_ID = ""
    /\ DEFAULT_DEPLOYMENT_ID = ""
    /\ name = ""
    /\ arguments = NoneValue
    /\ api = ApiNoResponse("")
    /\ response = TextContent("", <<>>)
    /\ tools = <<>>

--------------------------------------------------------------------------
(* The process: a tree arrives, add_urls_to_response is applied to it, and *)
(* then again to what it returned.                                         *)

\* no snippet extraction is going on
SnippetIdle ==
    /\ content = ""
    /\ query = ""
    /\ max_length = DefaultMaxLength
    /\ outcome = Raise("")

Init ==
    /\ pc = "annotate"
    /\ PORTAL_BASE_URL \in BaseUrls
    /\ input \in Trees
    /\ heap = Load(<<>>, input).heap
    /\ heap0 = heap
    /\ arg = Len(heap)
    /\ result = Len(heap)
    /\ stderr = <<>>
    /\ calls = 0
    /\ SnippetIdle
    /\ answer = NoAnswer
    /\ SearchIdle
    /\ ToolsIdle

\* one top-level call: result = add_urls_to_response(data)
CallAddUrls ==
    /\ pc = "annotate"
    /\ calls < MaxCalls
    /\ LET r == add_urls_to_response([heap |-> heap, log |-> <<>>], result, 0)
       IN /\ heap' = r.heap
          /\ result' = r.ref
          /\ stderr' = r.log
    /\ heap0' = heap
    /\ arg' = result
    /\ calls' = calls + 1
    /\ UNCHANGED <<pc, PORTAL_BASE_URL, input, snippetVars, answer, searchVars, toolVars>>

Next == CallAddUrls

Spec == Init /\ [][Next]_vars

--------------------------------------------------------------------------
(* The process of extract_smart_snippet: a document body and a query       *)
(* arrive, the function is called once.                                    *)

RECURSIVE StringsOver(_, _)
\* the strings of length at most n over the characters in chars
StringsOver(chars, n) ==
    IF n = 0 THEN {""}
    ELSE LET shorter == StringsOver(chars, n - 1)
         IN shorter \cup {s \o c : s \in shorter, c \in chars}

ContentChars == {"c", "D", " ", "."}
QueryChars == {"c", "d", " "}

ExampleContent == "The cat sat. The cat ran fast. Dogs bark."
ExampleQuery == "cat ran"

Contents ==
    StringsOver(ContentChars, MaxContentLen)
    \cup {ExampleContent, "c \\d. D", "c.\n\nd? D!"}
Queries ==
    StringsOver(QueryChars, MaxQueryLen)
    \cup {ExampleQuery, "c d", "d c", "c c", "D .", "c \\d", "\\", "\\1 c", "c d c"}
MaxLengths == {DefaultMaxLength, ShortMaxLength}
\* the limits tried with a query: the limit 0 goes with the short queries
MaxLengthsFor(q) == IF Len(q) <= 1 THEN MaxLengths \cup {0} ELSE MaxLengths

\* no tree annotation is going on
AnnotateIdle ==
    /\ PORTAL_BASE_URL = ""
    /\ input = Num
    /\ heap = <<>>
    /\ heap0 = <<>>
    /\ arg = 0
    /\ result = 0
    /\ stderr = <<>>
    /\ calls = 0

InitSnippet ==
    /\ pc = "snippet"
    /\ content \in Contents
    /\ query \in Queries
    /\ max_length \in MaxLengthsFor(query)
    /\ outcome = Raise("")
    /\ AnnotateIdle
    /\ answer = NoAnswer
    /\ SearchIdle
    /\ ToolsIdle

\* outcome = extract_smart_snippet(content, query, max_length)
CallSnippet ==
    /\ pc = "snippet"
    /\ outcome' = extract_smart_snippet(content, query, max_length)
    /\ pc' = "snippet_done"
    /\ UNCHANGED <<content, query, max_length, annotateVars, answer, searchVars, toolVars>>

NextSnippet == CallSnippet

SpecSnippet == InitSnippet /\ [][NextSnippet]_vars

--------------------------------------------------------------------------
(* The process of extract_quick_answer: a document body and a query        *)
(* arrive, the function is called once.                                    *)

RECURSIVE Phrases(_, _)
\* the texts made of at most n of the given parts, joined by single spaces
Phrases(parts, n) ==
    IF n = 0 THEN {""}
    ELSE LET shorter == Phrases(parts, n - 1)
         IN shorter \cup parts \cup {s \o " " \o p : s \in shorter \ {""}, p \in parts}

QueryParts ==
    {"What is tla", "how to install", "what's the limit", "whats the port",
     "price", "define widget", "what about a.b", "what is widget"}
ContentParts ==
    {"TLA is a logic.", "To install, run setup.", "The limit is 5.",
     "Rate limit: 10 per second", "Widget: a small part.", "Nothing here"}

QuickQueries ==
    Phrases(QueryParts, MaxQueryParts)
    \cup {"What is tla price", "how to install what is tla", "define widget what is widget"}
QuickContents ==
    Phrases(ContentParts, MaxContentParts)
    \cup {"Nothing here TLA is a logic.", "The limit is 5. Rate limit: 10 per second"}

InitQuickAnswer ==
    /\ pc = "quick_answer"
    /\ content \in QuickContents
    /\ query \in QuickQueries
    /\ max_length = DefaultMaxLength
    /\ outcome = Raise("")
    /\ AnnotateIdle
    /\ answer = NoAnswer
    /\ SearchIdle
    /\ ToolsIdle

\* answer = extract_quick_answer(content, query)
CallQuickAnswer ==
    /\ pc = "quick_answer"
    /\ answer' = extract_quick_answer(content, query)
    /\ pc' = "quick_answer_done"
    /\ UNCHANGED <<annotateVars, snippetVars, searchVars, toolVars>>

NextQuickAnswer == CallQuickAnswer

SpecQuickAnswer == InitQuickAnswer /\ [][NextQuickAnswer]_vars

--------------------------------------------------------------------------
(* The process of the search helpers: a list of results and a query (or a  *)
(* current path) arrive, and one of enhance_search_results,                *)
(* get_related_content and suggest_alternative_queries is called once.     *)

MaxShortList == 2   \* every list of at most MaxShortList results is tried
MaxResults == 11    \* the longest lists hold MaxResults results

\* results whose path is a string or missing, in a fixed order
PlainResultSeq ==
    << Dict(<<"path">>, <<Str("/guides/x")>>),
       Dict(<<"path">>, <<Str("/api/y")>>),
       Dict(<<"path">>, <<Str("/z")>>),
       Dict(<<"path">>, <<Str("/How-To/api")>>),
       Dict(<<"path">>, <<Str("/api/errors")>>),
       Dict(<<"path", "content">>, <<Str("/errors/reference"), Str("The cat ran. A dog sat.")>>),
       Dict(<<"title">>, <<Str("t")>>),
       Dict(<<"path", "content">>, <<Str("/reference"), Str("TLA is a logic.")>>),
       Dict(<<"content">>, <<Str("")>>),
       Dict(<<"path", "relevance_score", "description">>, <<Str("/z"), Num, Str("d")>>),
       Dict(<<"content", "path">>, <<Str("cat dog"), Str("/troubleshooting")>>) >>
PlainResults == Range(PlainResultSeq)

\* results whose path is a number, null or a mapping
OddPathResults ==
    {Dict(<<"path">>, <<v>>) : v \in {Num, NoneValue, Dict(<<>>, <<>>)}}
    \cup {Dict(<<"path", "content">>, <<Num, Str("TLA is a logic.")>>)}

\* the list of n results that starts at the a-th plain result and steps by b
CyclicList(n, a, b) ==
    [i \in 1..n |-> PlainResultSeq[((a + (i - 1) * b) % Len(PlainResultSeq)) + 1]]

ExamplePaths == <<"/guides/x", "/api/y", "/z">>

EnhanceLists ==
    UNION {SeqsOver(PlainResults \cup OddPathResults, n) : n \in 0..MaxShortList}
    \cup {CyclicList(n, a, b) : n \in (TopResults - 1)..MaxResults,
                                a \in 0..(Len(PlainResultSeq) - 1), b \in {1, 4}}
    \cup {[i \in DOMAIN ExamplePaths |-> Dict(<<"path">>, <<Str(ExamplePaths[i])>>)]}

SearchQueries == {"what is tla", "cat ran", "cat dog", "x", "how to install", "c \\d"}

RelatedResults ==
    {Dict(<<"path">>, <<Str(p)>>) : p \in {"/a/c", "/a", "/a/b/c", "/", "/a/b", "/ab/c", "/x"}}
    \cup {Dict(<<"title", "path", "portal_url">>, <<Str("T"), Str("/a/c"), Str("u")>>),
          Dict(<<"title">>, <<Str("t")>>)}
    \cup {Dict(<<"path">>, <<v>>) : v \in {Num, NoneValue, Dict(<<>>, <<>>)}}

RelatedLists ==
    UNION {SeqsOver(RelatedResults, n) : n \in 0..MaxShortList}
    \cup {Copies(x, RelatedLimit + 1) : x \in RelatedResults}

CurrentPaths == {"", "/a/b", "/a", "a/b/"}

SuggestQueries ==
    {"", "error", "errors", "Login Error", "s", "ERRORS", "create s",
     "delete update login", "x", "errorerror", "Update Logins"}

InitSearch ==
    /\ \/ /\ pc = "enhance"
          /\ results \in EnhanceLists
          /\ query \in SearchQueries
          /\ current_path = ""
       \/ /\ pc = "related"
          /\ results \in RelatedLists
          /\ query = ""
          /\ current_path \in CurrentPaths
       \/ /\ pc = "suggest"
          /\ results = <<>>
          /\ query \in SuggestQueries
          /\ current_path = ""
    /\ enhanced = EnhanceRaise("")
    /\ related = RelatedEmpty
    /\ suggestions = <<>>
    /\ content = ""
    /\ max_length = DefaultMaxLength
    /\ outcome = Raise("")
    /\ AnnotateIdle
    /\ answer = NoAnswer
    /\ ToolsIdle

\* enhanced = enhance_search_results(results, query)
CallEnhance ==
    /\ pc = "enhance"
    /\ enhanced' = enhance_search_results(results, query)
    /\ pc' = "enhance_done"
    /\ UNCHANGED <<annotateVars, snippetVars, answer, results, current_path, related,
                   suggestions, toolVars>>

\* related = get_related_content(current_path, results)
CallRelated ==
    /\ pc = "related"
    /\ related' = get_related_content(current_path, results)
    /\ pc' = "related_done"
    /\ UNCHANGED <<annotateVars, snippetVars, answer, results, current_path, enhanced,
                   suggestions, toolVars>>

\* suggestions = suggest_alternative_queries(query)
CallSuggest ==
    /\ pc = "suggest"
    /\ suggestions' = suggest_alternative_queries(query)
    /\ pc' = "suggest_done"
    /\ UNCHANGED <<annotateVars, snippetVars, answer, results, current_path, enhanced,
                   related, toolVars>>

NextSearch == CallEnhance \/ CallRelated \/ CallSuggest

SpecSearch == InitSearch /\ [][NextSearch]_vars

--------------------------------------------------------------------------
(* The process of the tool handlers: a client lists the tools or calls one *)
(* of them, once.                                                          *)

ToolNames == {handle_list_tools[i].name : i \in DOMAIN handle_list_tools}

DefaultIds == {"", "id"}

\* the ids a call carries, and the arguments of the tools
IdArguments ==
    { Dict(<<>>, <<>>),
      Dict(<<"organization_id", "deployment_id">>, <<Str("o"), Str("d")>>),
      Dict(<<"organization_id">>, <<Str("o")>>) }
OwnArguments ==
    { Dict(<<>>, <<>>),
      Dict(<<"query">>, <<Str("what is tla")>>),
      Dict(<<"query">>, <<Str("api error")>>),
      Dict(<<"for_path">>, <<Str("/a/b")>>),
      Dict(<<"for_path", "for_id">>, <<Str(""), Str("7")>>),
      Dict(<<"paths">>, <<List(<<Str("/a"), Num, Str("b")>>)>>),
      Dict(<<"specification_id">>, <<Str("s")>>) }
Arguments ==
    {NoneValue}
    \cup {Dict(ids.keys \o own.keys, ids.kids \o own.kids) :
              ids \in IdArguments, own \in OwnArguments}

ApiValues ==
    { Dict(<<"results">>, <<List(<<>>)>>),
      Dict(<<"results">>,
           <<List(<< Dict(<<"path", "title", "content", "description">>,
                          <<Str("/guides/x"), Str("T"), Str("TLA is a logic."), Str("d")>>),
                     Dict(<<"href">>, <<Str("/api/y")>>) >>)>>),
      Dict(<<"results">>, <<List(<<Dict(<<"path">>, <<Num>>)>>)>>),
      Dict(<<"path", "title", "content">>,
           <<Str("/a/b"), Str("T"), Str("# H\n- f\n1. g\n## \n-x\n### S s")>>),
      Dict(<<"title">>, <<Str("T")>>) }

ApiCalls ==
    {ApiOk(v, "openapi: 3") : v \in ApiValues}
    \cup {ApiHttpError("404 Client Error", "404", "not found"), ApiNoResponse("timed out")}

InitTools ==
    /\ pc = "tool"
    /\ PORTAL_BASE_URL \in BaseUrls
    /\ DEFAULT_ORG_ID \in DefaultIds
    /\ DEFAULT_DEPLOYMENT_ID \in DefaultIds
    /\ name \in ToolNames \cup {"unknown_tool"}
    /\ arguments \in Arguments
    /\ api \in ApiCalls
    /\ response = TextContent("", <<>>)
    /\ tools = <<>>
    /\ input = Num
    /\ heap = <<>>
    /\ heap0 = <<>>
    /\ arg = 0
    /\ result = 0
    /\ stderr = <<>>
    /\ calls = 0
    /\ SnippetIdle
    /\ answer = NoAnswer
    /\ SearchIdle

\* response = handle_call_tool(name, arguments)
CallTool ==
    /\ pc = "tool"
    /\ response' = handle_call_tool(name, arguments, api)
    /\ stderr' = response'.log
    /\ pc' = "tool_done"
    /\ UNCHANGED <<PORTAL_BASE_URL, input, heap, heap0, arg, result, calls, snippetVars,
                   answer, searchVars, DEFAULT_ORG_ID, DEFAULT_DEPLOYMENT_ID, name,
                   arguments, api, tools>>

\* tools = handle_list_tools()
ListTools ==
    /\ pc = "tool"
    /\ tools' = handle_list_tools
    /\ pc' = "tools_listed"
    /\ UNCHANGED <<annotateVars, snippetVars, answer, searchVars, DEFAULT_ORG_ID,
                   DEFAULT_DEPLOYMENT_ID, name, arguments, api, response>>

NextTools == CallTool \/ ListTools

SpecTools == InitTools /\ [][NextTools]_vars

--------------------------------------------------------------------------
(* Properties of add_urls_to_response *)

Returned == calls >= 1
BaseSet == PORTAL_BASE_URL # ""
ArgValue == Value(heap0, arg)       \* the tree passed to the latest call
ResultValue == Value(heap, result)  \* the tree it returned

HasK(v, k) == k \in Range(v.keys)
Get(v, k) == v.kids[IndexOf(v.keys, k)]
Without(ks, k) == SelectSeq(ks, LAMBDA x : x # k)

ResultsOf(x) == Dict(<<"results">>, <<List(<<x>>)>>)

\* C1: with an empty base URL the call returns its argument: the same object,
\* the heap untouched, hence a tree equal to the input with no portal_url added.
C1_EmptyBaseIsIdentity ==
    (Returned /\ ~BaseSet) =>
        /\ result = arg
        /\ heap = heap0
        /\ ResultValue = input

C1_Witness ==
    /\ calls = 1 /\ ~BaseSet
    /\ input = ResultsOf(Dict(<<"path">>, <<Str("/a")>>))
    /\ ResultValue = input

\* the candidate fields in the order the specification gives them
C2_Candidates == <<"path", "href", "url", "link", "uri", "pathname">>

\* the URL the specification derives for mapping v (<<>> when none)
C2_Url(v) ==
    LET hits == {i \in DOMAIN C2_Candidates :
                    HasK(v, C2_Candidates[i]) /\ Get(v, C2_Candidates[i]).tag = "str"}
    IN IF hits = {} THEN <<>>
       ELSE LET first == CHOOSE i \in hits : \A j \in hits : i <= j
                val == Get(v, C2_Candidates[first]).str
            IN IF StartsWith(val, "/") THEN <<PORTAL_BASE_URL \o val>>
               ELSE IF val # "" /\ ~StartsWith(val, "/") /\ ~StartsWith(val, "http")
               THEN <<PORTAL_BASE_URL \o "/" \o val>>
               ELSE <<>>

RECURSIVE C2_Holds(_, _)
C2_Holds(in, out) ==
    CASE in.tag = "dict" ->
           /\ out.tag = "dict"
           /\ IF C2_Url(in) # <<>>
              THEN HasK(out, "portal_url") /\ Get(out, "portal_url") = Str(C2_Url(in)[1])
              ELSE /\ HasK(out, "portal_url") <=> HasK(in, "portal_url")
                   /\ HasK(in, "portal_url") => Get(out, "portal_url") = Get(in, "portal_url")
           /\ \A i \in DOMAIN in.keys :
                 in.keys[i] \notin {"portal_url", "content", "body", "html"} =>
                     /\ HasK(out, in.keys[i])
                     /\ C2_Holds(in.kids[i], Get(out, in.keys[i]))
      [] in.tag = "list" ->
           /\ out.tag = "list"
           /\ Len(out.kids) = Len(in.kids)
           /\ \A i \in DOMAIN in.kids : C2_Holds(in.kids[i], out.kids[i])
      [] OTHER -> TRUE

RECURSIVE C3_Frame(_, _)
C3_Frame(in, out) ==
    CASE in.tag = "dict" ->
           /\ out.tag = "dict"
           /\ Without(out.keys, "portal_url") = Without(in.keys, "portal_url")
           /\ \A i \in DOMAIN in.keys :
                 in.keys[i] # "portal_url" =>
                    IF in.keys[i] \in {"content", "body", "html"}
                    THEN Get(out, in.keys[i]) = in.kids[i]
                    ELSE C3_Frame(in.kids[i], Get(out, in.keys[i]))
      [] in.tag = "list" ->
           /\ out.tag = "list"
           /\ Len(out.kids) = Len(in.kids)
           /\ \A i \in DOMAIN in.kids : C3_Frame(in.kids[i], out.kids[i])
      [] OTHER -> out = in

C4_Idempotent ==
    calls >= 2 => ResultValue = ArgValue

C4_Witness ==
    /\ calls = 2 /\ BaseSet
    /\ input = ResultsOf(ResultsOf(Dict(<<"path", "portal_url">>, <<Str("b"), Str("/a")>>)))
    /\ ResultValue # input
    /\ ResultValue = ArgValue

\* C5: with a base URL set, the call changes no object that existed before it
\* (the caller's tree is intact at every depth), and for a mapping argument it
\* returns a mapping object created by the call.
C5_InputNotMutated ==
    (Returned /\ BaseSet) =>
        /\ \A a \in DOMAIN heap0 : heap[a] = heap0[a]
        /\ heap0[arg].tag = "dict" => result \notin DOMAIN heap0

C5_Witness ==
    /\ calls = 1 /\ BaseSet
    /\ input = Dict(<<"path", "meta">>, <<Str("/a"), Dict(<<"path">>, <<Str("b")>>)>>)
    /\ Value(heap, arg) = input
    /\ ResultValue # input

\* C6: one top-level call writes exactly one diagnostic line, at depth 0,
\* however many mappings receive a portal_url.
C6_DiagnosticsOnceAtDepth0 ==
    Returned =>
        /\ Len(stderr) = 1
        /\ \A i \in DOMAIN stderr : stderr[i].depth = 0

--------------------------------------------------------------------------
(* Properties of extract_smart_snippet *)

SnippetReturned == pc = "snippet_done"

\* C7: for the example of the specification the best sentence is
\* "The cat ran fast.", the snippet is the three sentences joined by single
\* spaces with cat and ran wrapped in **, the relevance is 1.0, the snippet
\* is highlighted and the matched terms are cat, ran.
C7_CatRanExample ==
    (/\ SnippetReturned /\ content = ExampleContent /\ query = ExampleQuery
     /\ max_length = DefaultMaxLength) =>
        /\ SnippetLocals(content, query).sentence_scores[1].sentence = "The cat ran fast."
        /\ outcome.raised = ""
        /\ outcome.snippet = "The **cat** sat. The **cat** **ran** fast. Dogs bark."
        /\ outcome.relevance_score = One
        /\ outcome.highlighted
        /\ outcome.matched_terms = <<"cat", "ran">>

C7_Witness ==
    /\ SnippetReturned /\ content = ExampleContent /\ query = ExampleQuery
    /\ max_length = DefaultMaxLength
    /\ outcome.highlighted

\* a ratio <<n, d>> compared with 0 and 1
AtLeastZero(r) == r[1] >= 0 /\ r[2] > 0
AtMostOne(r) == r[1] <= r[2]

\* C8: every call returns (no exception, no division by zero) an outcome
\* with 0.0 <= relevance_score <= 1.0, in which relevance_score = 0.0 implies
\* not highlighted, and highlighted implies a positive score and a query term
\* occurring in the best sentence.
C8_ReturnsScoreInRange ==
    SnippetReturned =>
        /\ outcome.raised = ""
        /\ AtLeastZero(outcome.relevance_score) /\ AtMostOne(outcome.relevance_score)
        /\ outcome.relevance_score = Zero => ~outcome.highlighted
        /\ outcome.highlighted =>
              /\ outcome.relevance_score # Zero
              /\ outcome.matched_terms # <<>>

\* The part of C8 that the code does satisfy: no call divides by zero, and
\* every call that returns has its score in range.
C8_InRangeWhenReturned ==
    SnippetReturned =>
        /\ outcome.raised # "ZeroDivisionError"
        /\ outcome.raised = "" =>
              /\ AtLeastZero(outcome.relevance_score) /\ AtMostOne(outcome.relevance_score)
              /\ outcome.relevance_score = Zero => ~outcome.highlighted
              /\ outcome.highlighted =>
                    /\ outcome.relevance_score # Zero
                    /\ outcome.matched_terms # <<>>

\* the scoring rule as the specification words it; the value is twice the
\* score
C9_Occurs(term, sentence) ==
    \E a \in 1..(Len(sentence) - Len(term) + 1) :
        Lower(SubSeq(sentence, a, a + Len(term) - 1)) = term
C9_Sum(terms, q, sentence) ==
    Cardinality({j \in DOMAIN terms : C9_Occurs(terms[j], sentence)})
    + (IF C9_Occurs(Lower(q), sentence) THEN Len(terms) ELSE 0)
C9_Score_x2(terms, q, sentence) ==
    IF C9_Sum(terms, q, sentence) > 1
    THEN 3 * C9_Sum(terms, q, sentence) ELSE 2 * C9_Sum(terms, q, sentence)
\* the smallest index among the entries of scores with the maximum value
C9_First(scores) ==
    CHOOSE k \in DOMAIN scores :
        /\ \A j \in DOMAIN scores : scores[j] <= scores[k]
        /\ \A j \in DOMAIN scores : scores[j] = scores[k] => k <= j

\* C9: in every outcome returned, relevance_score = min(1.0, best / termCount)
\* with best the maximum sentence score of the specification's scoring rule
\* (0.0 for a query without terms, where best is 0), and in a highlighted
\* outcome the window and matched_terms are those of the first sentence with
\* the maximum score.
C9_ScoreAndTieBreak ==
    (SnippetReturned /\ outcome.raised = "") =>
        LET terms == Split(Lower(query))
            sentences == SentenceSplit(content)
            scores == [k \in DOMAIN sentences |-> C9_Score_x2(terms, query, sentences[k])]
            first == C9_First(scores)
            best == scores[first]
        IN /\ IF Len(terms) = 0 \/ best = 0
              THEN outcome.relevance_score = Zero
              ELSE IF best >= 2 * Len(terms)
              THEN outcome.relevance_score = One
              ELSE outcome.relevance_score[1] * 2 * Len(terms)
                      = best * outcome.relevance_score[2]
           /\ outcome.highlighted =>
                 /\ outcome.matched_terms =
                       SelectSeq(terms, LAMBDA term : C9_Occurs(term, sentences[first]))
                 /\ outcome.snippet =
                       TrimToMaxLength(
                           HighlightFrom(ContextWindow(sentences, first - 1), terms, 1).text,
                           max_length)

C9_Witness ==
    /\ SnippetReturned /\ content = "c. D" /\ query = "c d"
    /\ max_length = DefaultMaxLength
    /\ outcome.relevance_score = <<1, 2>>
    /\ outcome.matched_terms = <<"c">>

--------------------------------------------------------------------------
(* Properties of extract_quick_answer *)

\* C10: extract_quick_answer never raises: every call returns a string or
\* None, whatever the query shape.
C10_NeverRaises ==
    pc = "quick_answer_done" => answer.raised = ""

--------------------------------------------------------------------------
(* Properties of extract_quick_answer: which question shapes are used *)

QuickAnswerReturned == pc = "quick_answer_done" /\ answer.raised = ""

\* the question shapes, by position in "patterns", that match the query
C17_Shapes(query_lower) ==
    {k \in DOMAIN question_patterns : Search(question_patterns[k], query_lower, FALSE) # <<>>}

\* what the k-th answer pattern extracts from the body: the last group of
\* its first match, stripped, or nothing
C17_ShapeAnswer(k, c) ==
    LET matches == FindAll(answer_patterns[k], c, TRUE)
    IN IF matches = <<>> THEN None
       ELSE Answer(Strip(matches[1].groups[Len(matches[1].groups)]))

C17_Least(S) == CHOOSE k \in S : \A j \in S : k <= j

\* C17 (as stated): only the first question shape that matches the query is
\* used; when its answer pattern finds nothing in the body the result is
\* nothing, and the definition fallback is attempted only when no shape
\* matches the query.
C17_FirstShapeOnly ==
    (QuickAnswerReturned /\ content # "") =>
        LET query_lower == Lower(query)
            shapes == C17_Shapes(query_lower)
        IN IF shapes # {}
           THEN answer = C17_ShapeAnswer(C17_Least(shapes), content)
           ELSE answer = DefinitionFallback(content, query_lower)

\* C17 (amended): every question shape that matches the query is tried, in
\* the order of "patterns"; the answer comes from the first of them whose
\* answer pattern finds a match in the body, and when none does the
\* definition fallback is attempted, whether or not a shape matched the query.
C17_EveryMatchingShapeThenFallback ==
    (QuickAnswerReturned /\ content # "") =>
        LET query_lower == Lower(query)
            shapes == C17_Shapes(query_lower)
            usable == {k \in shapes : Compile(answer_patterns[k]) = ""}
            hits == {k \in usable : C17_ShapeAnswer(k, content).found}
        IN IF hits # {}
           THEN answer = C17_ShapeAnswer(C17_Least(hits), content)
           ELSE answer = DefinitionFallback(content, query_lower)

\* the query has the shape "what is X", the body holds no "X is ...", and the
\* answer comes from the definition fallback
C17_Witness ==
    /\ QuickAnswerReturned
    /\ 1 \in C17_Shapes(Lower(query))
    /\ \A k \in C17_Shapes(Lower(query)) :
          Compile(answer_patterns[k]) = "" /\ ~C17_ShapeAnswer(k, content).found
    /\ answer.found
    /\ answer = DefinitionFallback(content, Lower(query))

--------------------------------------------------------------------------
(* Properties of extract_smart_snippet: the length of the snippet *)

\* C18: the snippet is never longer than max_length + 3, on the fallback
\* path, on the highlighted path, and when the cut window holds no space.
C18_SnippetBounded ==
    (SnippetReturned /\ outcome.raised = "") => Len(outcome.snippet) <= max_length + 3

\* a body that fits the limit, lengthened past it by the emphasis markers,
\* and cut where the first max_length characters hold no space
C18_Witness ==
    /\ SnippetReturned
    /\ outcome.highlighted
    /\ Len(content) <= max_length
    /\ Len(outcome.snippet) = max_length + 3
    /\ ~Contains(Prefix(outcome.snippet, max_length), " ")

--------------------------------------------------------------------------
(* Properties of the search helpers: enhance_search_results,               *)
(* get_related_content and suggest_alternative_queries                     *)

EnhanceReturned == pc = "enhance_done" /\ enhanced.raised = ""
RelatedReturned == pc = "related_done" /\ related.raised = ""

\* the first ten results, which are the ones the function looks at
C11_Top == FirstN(results, TopResults)

\* the results whose path is present but is not a string
C11_OddPath(rs) == {i \in DOMAIN rs : KeyIn(rs[i], "path") /\ ~IsStr(DictGet(rs[i], "path", Num))}

C11_Count(cats, bucket) ==
    IF \E i \in DOMAIN cats : cats[i].name = bucket
    THEN (CHOOSE c \in Range(cats) : c.name = bucket).count
    ELSE 0

\* C11: a path that is present but not a string (a number, null, a mapping)
\* is treated as absent and causes no error: enhance_search_results completes
\* and counts the result in the concepts bucket, and get_related_content
\* completes and leaves the result unclassified.
C11_NonStringPathIsAbsent ==
    /\ (pc = "enhance_done" /\ \A i \in DOMAIN C11_Top : ~KeyIn(C11_Top[i], "content")) =>
           /\ enhanced.raised = ""
           /\ C11_Count(enhanced.categories, "concepts") >= Cardinality(C11_OddPath(C11_Top))
    /\ (pc = "related_done" /\ current_path # "") =>
           /\ related.raised = ""
           /\ Len(related.same_section) + Len(related.parent_topics)
                  + Len(related.child_topics)
                 <= Len(results) - Cardinality(C11_OddPath(results))

\* the buckets in priority order, each with the words that select it
C12_Rules ==
    << [bucket |-> "guides", words |-> {"guide", "how-to"}],
       [bucket |-> "api", words |-> {"api"}],
       [bucket |-> "troubleshooting", words |-> {"troubleshoot", "error"}],
       [bucket |-> "reference", words |-> {"reference"}] >>

\* the bucket of a result: the first rule one of whose words occurs in the
\* lower-cased path, concepts when there is none or the path is missing
C12_Bucket(item) ==
    LET path == IF KeyIn(item, "path") THEN Lower(DictGet(item, "path", Str("")).str) ELSE ""
        hits == {r \in DOMAIN C12_Rules : \E w \in C12_Rules[r].words : Contains(path, w)}
    IN IF hits = {} THEN "concepts"
       ELSE C12_Rules[CHOOSE r \in hits : \A o \in hits : r <= o].bucket

RECURSIVE C12_Sum(_)
C12_Sum(cats) == IF cats = <<>> THEN 0 ELSE Head(cats).count + C12_Sum(Tail(cats))

C12_Min(a, b) == IF a < b THEN a ELSE b

\* C12: each of the first min(10, n) results is counted in exactly one of the
\* five buckets, chosen by first-match priority on the lower-cased path; the
\* categories map holds only buckets with a count >= 1, its counts sum to
\* min(10, n), results beyond the tenth are not counted, and the paths
\* "/guides/x", "/api/y", "/z" give {guides: 1, api: 1, concepts: 1}.
C12_CategoriesCountTopTen ==
    EnhanceReturned =>
        LET cats == enhanced.categories
            top == 1..C12_Min(10, Len(results))
        IN /\ \A i \in DOMAIN cats : cats[i].count >= 1 /\ cats[i].name \in Range(category_names)
           /\ \A i, j \in DOMAIN cats : cats[i].name = cats[j].name => i = j
           /\ \A b \in Range(category_names) :
                 C11_Count(cats, b) = Cardinality({i \in top : C12_Bucket(results[i]) = b})
           /\ C12_Sum(cats) = C12_Min(10, Len(results))
           /\ results = [i \in DOMAIN ExamplePaths |-> Dict(<<"path">>, <<Str(ExamplePaths[i])>>)]
                 => Range(cats) = {[name |-> "guides", count |-> 1], [name |-> "api", count |-> 1],
                                   [name |-> "concepts", count |-> 1]}

\* eleven results of which ten are counted, in several buckets, one of them
\* holding a path that names two buckets
C12_Witness ==
    /\ EnhanceReturned
    /\ Len(results) = 11
    /\ C12_Sum(enhanced.categories) = 10
    /\ Len(enhanced.categories) >= 3
    /\ \E i \in 1..10 : DictGet(results[i], "path", Str("")) = Str("/errors/reference")
    /\ C12_Bucket(results[11]) = "concepts"
    /\ C11_Count(enhanced.categories, "concepts")
         = Cardinality({i \in 1..10 : C12_Bucket(results[i]) = "concepts"})

C13_Given(p) == \E i \in DOMAIN results : DictGet(results[i], "path", Str("")) = Str(p)
C13_Placed(list, p) == \E k \in DOMAIN list : list[k].path = p

\* C13: with the current path "/a/b", a result with path "/a/c" is placed in
\* same_section, a result with path "/a" in parent_topics and a result with
\* path "/a/b/c" in child_topics.
C13_SectionParentChild ==
    (RelatedReturned /\ current_path = "/a/b" /\ Len(results) <= RelatedLimit) =>
        /\ C13_Given("/a/c") => C13_Placed(related.same_section, "/a/c")
        /\ C13_Given("/a") => C13_Placed(related.parent_topics, "/a")
        /\ C13_Given("/a/b/c") => C13_Placed(related.child_topics, "/a/b/c")

\* the (word, synonym) pairs of the table whose word occurs in the lower-cased
\* query, and the place of a pair in table order
C14_Pairs(query_lower) ==
    {p \in (DOMAIN synonyms) \X (1..3) :
        p[2] \in DOMAIN synonyms[p[1]].alts /\ Contains(query_lower, synonyms[p[1]].word)}
C14_Rank(P, p) ==
    1 + Cardinality({o \in P : o[1] < p[1] \/ (o[1] = p[1] /\ o[2] < p[2])})

\* C14: for every query, the empty one included, the suggestions are between
\* 1 and 3 strings: first the singular/plural flip of the query as given,
\* then the synonym substitutions on the lower-cased query in table order,
\* the whole cut to its first 3 entries; "error" gives "errors", "issue",
\* "problem".
C14_FlipThenSynonyms ==
    pc = "suggest_done" =>
        LET P == C14_Pairs(Lower(query))
            n == Len(query)
            flip == IF n > 0 /\ Char(query, n) = "s" THEN SubSeq(query, 1, n - 1)
                    ELSE query \o "s"
        IN /\ Len(suggestions) = C12_Min(3, 1 + Cardinality(P))
           /\ suggestions[1] = flip
           /\ \A p \in P :
                 C14_Rank(P, p) + 1 <= 3 =>
                     suggestions[C14_Rank(P, p) + 1]
                        = Replace(Lower(query), synonyms[p[1]].word, synonyms[p[1]].alts[p[2]])
           /\ query = "error" => suggestions = <<"errors", "issue", "problem">>

\* a query in mixed case with a word of the table: the flip keeps the case,
\* the substitutions are lower-cased, and the list is cut
C14_Witness ==
    /\ pc = "suggest_done"
    /\ query # Lower(query)
    /\ Cardinality(C14_Pairs(Lower(query))) >= 3
    /\ Len(suggestions) = 3
    /\ suggestions[1] # Lower(suggestions[1])
    /\ suggestions[2] = Lower(suggestions[2])

\* a >= b for ratios
C15_AtLeast(a, b) == a[1] * b[2] >= b[1] * a[2]

\* the relevance of each of the first ten results: that of its snippet, or
\* 0.5 when it has no content field
C15_Scores ==
    [i \in 1..C12_Min(10, Len(results)) |->
        IF KeyIn(results[i], "content")
        THEN extract_smart_snippet(DictGet(results[i], "content", Str("")).str, query,
                                   DefaultMaxLength).relevance_score
        ELSE <<1, 2>>]

\* where the i-th result stands after a stable sort by decreasing score
C15_Place(scores, i) ==
    1 + Cardinality({j \in DOMAIN scores : ~C15_AtLeast(scores[i], scores[j])})
      + Cardinality({j \in DOMAIN scores : j < i /\ scores[j] = scores[i]})

\* C15: enhanced_results holds exactly min(10, n) entries, one per result
\* among the first ten, ordered by relevance_score non-increasing, entries of
\* equal relevance_score in their original order; a result without a content
\* field gets relevance_score 0.5, also when it carried a relevance_score of
\* its own.
C15_TopTenStablyRanked ==
    EnhanceReturned =>
        LET er == enhanced.enhanced_results
            scores == C15_Scores
        IN /\ Len(er) = C12_Min(10, Len(results))
           /\ \A k \in 1..(Len(er) - 1) :
                 C15_AtLeast(er[k].relevance_score, er[k + 1].relevance_score)
           /\ \A i \in DOMAIN scores :
                 /\ er[C15_Place(scores, i)].result = results[i]
                 /\ er[C15_Place(scores, i)].relevance_score = scores[i]
           /\ \A k \in DOMAIN er :
                 ~KeyIn(er[k].result, "content") => er[k].relevance_score = <<1, 2>>

\* eleven results: one without content that carries a relevance_score of its
\* own, one with content whose relevance is 0.5 too and which stays behind
\* an earlier result of that relevance, and one that the sort moves forward
C15_Witness ==
    /\ EnhanceReturned
    /\ Len(results) = 11
    /\ Len(enhanced.enhanced_results) = 10
    /\ \E k \in DOMAIN enhanced.enhanced_results :
          /\ KeyIn(enhanced.enhanced_results[k].result, "relevance_score")
          /\ ~KeyIn(enhanced.enhanced_results[k].result, "content")
    /\ \E i, j \in 1..10 :
          /\ i < j
          /\ ~KeyIn(results[i], "content") /\ KeyIn(results[j], "content")
          /\ C15_Scores[j] = <<1, 2>>
          /\ C15_Place(C15_Scores, i) < C15_Place(C15_Scores, j)
    /\ \E i, j \in 1..10 : i < j /\ C15_Place(C15_Scores, j) < C15_Place(C15_Scores, i)

\* the quick answer that the content of the i-th result gives for the query,
\* None when it gives none or an empty one
C16_AnswerOf(i) ==
    LET a == extract_quick_answer(DictGet(results[i], "content", Str("")).str, query)
    IN IF Truthy(a) THEN a ELSE None

\* C16 (as stated): the quick answer is attempted against the first of the
\* top-10 results that has a content field; when the result at index 0 has
\* none and a later one has, the answer comes from that later result.
C16_FirstResultWithContent ==
    EnhanceReturned =>
        LET with_content == {i \in 1..C12_Min(10, Len(results)) : KeyIn(results[i], "content")}
        IN IF with_content = {} THEN enhanced.quick_answer = None
           ELSE enhanced.quick_answer
                  = C16_AnswerOf(CHOOSE i \in with_content : \A j \in with_content : i <= j)

\* C16 (amended): the quick answer is attempted only against the result at
\* index 0, and only when that result has a content field; otherwise there
\* is no quick answer, whatever the later results hold.
C16_IndexZeroOnly ==
    EnhanceReturned =>
        IF results # <<>> /\ KeyIn(results[1], "content")
        THEN enhanced.quick_answer = C16_AnswerOf(1)
        ELSE enhanced.quick_answer = None

\* the result at index 0 has no content, the next one has a content that
\* answers the query, and there is no quick answer
C16_Witness ==
    /\ EnhanceReturned
    /\ Len(results) >= 2
    /\ ~KeyIn(results[1], "content")
    /\ KeyIn(results[2], "content")
    /\ C16_AnswerOf(2).found
    /\ enhanced.quick_answer = None

--------------------------------------------------------------------------
(* Properties of the tool handlers *)

ToolReturned == pc = "tool_done"

\* the input schema that handle_list_tools advertises for a tool
C19_Schema(tool) ==
    (CHOOSE t \in Range(handle_list_tools) : t.name = tool).inputSchema

\* the call supplies every argument the schema marks as required
C19_Supplied(tool, given) ==
    \A r \in Range(C19_Schema(tool).required) : given # NoneValue /\ KeyIn(given, r)

\* C19: a call that supplies every argument the tool's advertised input
\* schema marks as required is never rejected with an "... is required"
\* error; in particular, with no default ids configured,
\* generate_portal_urls called with paths and test_portal_url called with no
\* arguments reach their own branch and return their result.
C19_SchemaRequiredSuffices ==
    (ToolReturned /\ name \in ToolNames /\ C19_Supplied(name, arguments)) =>
        /\ ~Contains(response.text, " is required")
        /\ name \in {"generate_portal_urls", "test_portal_url"} => response.json

\* C20: when get_content is called with a non-empty for_path and the API
\* call succeeds, the response carries related_suggestions whose parent_topic
\* is the parent path of for_path; when for_path is not given,
\* related_suggestions is absent.
C20_RelatedSuggestionsForPath ==
    (ToolReturned /\ name = "get_content" /\ response.json) =>
        LET for_path == DictGet(arguments, "for_path", Str("")).str
        IN IF for_path # ""
           THEN /\ "related_suggestions" \in response.extras.added
                /\ response.extras.related_suggestions.parent_topic
                     = extract_parent_path(for_path)
           ELSE KeyIn(arguments, "for_path")
                \/ "related_suggestions" \notin response.extras.added

====
